---- MODULE Spec2Model ----
(***************************************************************************)
(* Solana Record Service: the declarative schema (codama.ts and its        *)
(* earlier revisions) and the record codec the schema implies.             *)
(*                                                                         *)
(* The schema revisions are transcribed node for node from the source.     *)
(* The codec (encode / decode / dispatch) lives in the generated bindings  *)
(* and their serializer library; it is modelled from the specification's   *)
(* section 4.1 and applied to the transcribed schemas.                     *)
(*                                                                         *)
(* One behaviour is one exchange: a caller encodes a value mapping with a  *)
(* schema, the buffer may be cut, extended or have one byte replaced on    *)
(* its way, and a receiver decodes it, re-encodes what it decoded, or asks *)
(* dispatch which schema the buffer belongs to.                            *)
(***************************************************************************)
EXTENDS Integers, Sequences, FiniteSets, TLC

(***************************************************************************)
(* Schema node constructors (codama).                                      *)
(***************************************************************************)
numberTypeNode(format) == [kind |-> "numberTypeNode", format |-> format]

booleanTypeNode == [kind |-> "booleanTypeNode"]

publicKeyTypeNode == [kind |-> "publicKeyTypeNode"]

stringTypeNode(encoding) == [kind |-> "stringTypeNode", encoding |-> encoding]

\* A value that may be absent: one presence byte, then the item if present.
optionTypeNode(item) == [kind |-> "optionTypeNode", item |-> item]

sizePrefixTypeNode(type, prefix) ==
    [kind |-> "sizePrefixTypeNode", type |-> type, prefix |-> prefix]

numberValueNode(n) == n

constantValueNode(type, value) == [type |-> type, value |-> value]

constantDiscriminatorNode(constant) ==
    [kind |-> "constantDiscriminatorNode", constant |-> constant, offset |-> 0]

\* A field without a default value: the caller supplies it.
structFieldTypeNode(name, type) ==
    [name |-> name, type |-> type, hasDefault |-> FALSE,
     defaultValue |-> 0, defaultValueStrategy |-> "none"]

\* A field with defaultValue / defaultValueStrategy.
structFieldTypeNodeDefault(name, type, defaultValue, strategy) ==
    [name |-> name, type |-> type, hasDefault |-> TRUE,
     defaultValue |-> defaultValue, defaultValueStrategy |-> strategy]

instructionArgumentNode(name, type) ==
    [name |-> name, type |-> type, hasDefault |-> FALSE,
     defaultValue |-> 0, defaultValueStrategy |-> "none"]

instructionArgumentNodeDefault(name, type, defaultValue, strategy) ==
    [name |-> name, type |-> type, hasDefault |-> TRUE,
     defaultValue |-> defaultValue, defaultValueStrategy |-> strategy]

accountNode(name, discriminator, fields) ==
    [family |-> "account", name |-> name,
     discriminators |-> <<discriminator>>, fields |-> fields]

instructionNode(name, discriminator, arguments) ==
    [family |-> "instruction", name |-> name,
     discriminators |-> <<discriminator>>, fields |-> arguments]

programNode(name, publicKey, accounts, instructions) ==
    [name |-> name, publicKey |-> publicKey, version |-> "1.0.0",
     accounts |-> accounts, instructions |-> instructions]

(***************************************************************************)
(* The four schema revisions present in the source, oldest first:          *)
(*   earliest  class account, two instructions                             *)
(*   first     class and record accounts, instructions 0..7                *)
(*   delegate  adds the recordDelegate account and instructions 8..10      *)
(*   latest    codama.ts: ownerType on record, tokenized instructions 8..12*)
(***************************************************************************)
earliest_class ==
    accountNode("class",
        constantDiscriminatorNode(constantValueNode(numberTypeNode("u8"), numberValueNode(1))),
        <<structFieldTypeNodeDefault("discriminator", numberTypeNode("u8"), numberValueNode(1), "omitted"),
          structFieldTypeNode("authority", publicKeyTypeNode),
          structFieldTypeNode("isPermissioned", booleanTypeNode),
          structFieldTypeNode("isFrozen", booleanTypeNode),
          structFieldTypeNode("name", sizePrefixTypeNode(stringTypeNode("utf8"), numberTypeNode("u8"))),
          structFieldTypeNode("metadata", stringTypeNode("utf8"))>>)

\* createClass declared under discriminator 1.
earliest_createClass_disc1 ==
    instructionNode("createClass",
        constantDiscriminatorNode(constantValueNode(numberTypeNode("u8"), numberValueNode(1))),
        <<instructionArgumentNodeDefault("discriminator", numberTypeNode("u8"), numberValueNode(1), "omitted"),
          instructionArgumentNode("isPermissioned", booleanTypeNode),
          instructionArgumentNode("isFrozen", booleanTypeNode),
          instructionArgumentNode("name", sizePrefixTypeNode(stringTypeNode("utf8"), numberTypeNode("u8"))),
          instructionArgumentNode("metadata", stringTypeNode("utf8"))>>)

earliest_createClass ==
    instructionNode("createClass",
        constantDiscriminatorNode(constantValueNode(numberTypeNode("u8"), numberValueNode(0))),
        <<instructionArgumentNodeDefault("discriminator", numberTypeNode("u8"), numberValueNode(0), "omitted"),
          instructionArgumentNode("isPermissioned", booleanTypeNode),
          instructionArgumentNode("isFrozen", booleanTypeNode),
          instructionArgumentNode("name", sizePrefixTypeNode(stringTypeNode("utf8"), numberTypeNode("u8"))),
          instructionArgumentNode("metadata", stringTypeNode("utf8"))>>)

earliest_updateClassMetadata ==
    instructionNode("updateClassMetadata",
        constantDiscriminatorNode(constantValueNode(numberTypeNode("u8"), numberValueNode(1))),
        <<instructionArgumentNodeDefault("discriminator", numberTypeNode("u8"), numberValueNode(1), "omitted"),
          instructionArgumentNode("metadata", stringTypeNode("utf8"))>>)

earliest_root ==
    programNode("solana-record-service", "srsUi2TVUUCyGcZdopxJauk8ZBzgAaHHZCVUhm5ifPa",
        <<earliest_class>>,
        <<earliest_createClass,
          earliest_updateClassMetadata>>)

first_class ==
    accountNode("class",
        constantDiscriminatorNode(constantValueNode(numberTypeNode("u8"), numberValueNode(1))),
        <<structFieldTypeNodeDefault("discriminator", numberTypeNode("u8"), numberValueNode(1), "omitted"),
          structFieldTypeNode("authority", publicKeyTypeNode),
          structFieldTypeNode("isPermissioned", booleanTypeNode),
          structFieldTypeNode("isFrozen", booleanTypeNode),
          structFieldTypeNode("name", sizePrefixTypeNode(stringTypeNode("utf8"), numberTypeNode("u8"))),
          structFieldTypeNode("metadata", stringTypeNode("utf8"))>>)

\* The record account without the hasAuthorityExtension byte.
first_record_noExtension ==
    accountNode("record",
        constantDiscriminatorNode(constantValueNode(numberTypeNode("u8"), numberValueNode(2))),
        <<structFieldTypeNodeDefault("discriminator", numberTypeNode("u8"), numberValueNode(2), "omitted"),
          structFieldTypeNode("class", publicKeyTypeNode),
          structFieldTypeNode("owner", publicKeyTypeNode),
          structFieldTypeNode("isFrozen", booleanTypeNode),
          structFieldTypeNode("expiry", numberTypeNode("i64")),
          structFieldTypeNode("name", sizePrefixTypeNode(stringTypeNode("utf8"), numberTypeNode("u8"))),
          structFieldTypeNode("data", stringTypeNode("utf8"))>>)

\* The record account with hasAuthorityExtension declared under the name of
\* the field before it.
first_record_dupName ==
    accountNode("record",
        constantDiscriminatorNode(constantValueNode(numberTypeNode("u8"), numberValueNode(2))),
        <<structFieldTypeNodeDefault("discriminator", numberTypeNode("u8"), numberValueNode(2), "omitted"),
          structFieldTypeNode("class", publicKeyTypeNode),
          structFieldTypeNode("owner", publicKeyTypeNode),
          structFieldTypeNode("isFrozen", booleanTypeNode),
          structFieldTypeNode("isFrozen", booleanTypeNode),
          structFieldTypeNode("expiry", numberTypeNode("i64")),
          structFieldTypeNode("name", sizePrefixTypeNode(stringTypeNode("utf8"), numberTypeNode("u8"))),
          structFieldTypeNode("data", stringTypeNode("utf8"))>>)

first_record ==
    accountNode("record",
        constantDiscriminatorNode(constantValueNode(numberTypeNode("u8"), numberValueNode(2))),
        <<structFieldTypeNodeDefault("discriminator", numberTypeNode("u8"), numberValueNode(2), "omitted"),
          structFieldTypeNode("class", publicKeyTypeNode),
          structFieldTypeNode("owner", publicKeyTypeNode),
          structFieldTypeNode("isFrozen", booleanTypeNode),
          structFieldTypeNode("hasAuthorityExtension", booleanTypeNode),
          structFieldTypeNode("expiry", numberTypeNode("i64")),
          structFieldTypeNode("name", sizePrefixTypeNode(stringTypeNode("utf8"), numberTypeNode("u8"))),
          structFieldTypeNode("data", stringTypeNode("utf8"))>>)

first_createClass ==
    instructionNode("createClass",
        constantDiscriminatorNode(constantValueNode(numberTypeNode("u8"), numberValueNode(0))),
        <<instructionArgumentNodeDefault("discriminator", numberTypeNode("u8"), numberValueNode(0), "omitted"),
          instructionArgumentNode("isPermissioned", booleanTypeNode),
          instructionArgumentNode("isFrozen", booleanTypeNode),
          instructionArgumentNode("name", sizePrefixTypeNode(stringTypeNode("utf8"), numberTypeNode("u8"))),
          instructionArgumentNode("metadata", stringTypeNode("utf8"))>>)

first_updateClassMetadata ==
    instructionNode("updateClassMetadata",
        constantDiscriminatorNode(constantValueNode(numberTypeNode("u8"), numberValueNode(1))),
        <<instructionArgumentNodeDefault("discriminator", numberTypeNode("u8"), numberValueNode(1), "omitted"),
          instructionArgumentNode("metadata", stringTypeNode("utf8"))>>)

first_freezeClass ==
    instructionNode("freezeClass",
        constantDiscriminatorNode(constantValueNode(numberTypeNode("u8"), numberValueNode(2))),
        <<instructionArgumentNodeDefault("discriminator", numberTypeNode("u8"), numberValueNode(2), "omitted"),
          instructionArgumentNode("isFrozen", booleanTypeNode)>>)

first_createRecord ==
    instructionNode("createRecord",
        constantDiscriminatorNode(constantValueNode(numberTypeNode("u8"), numberValueNode(3))),
        <<instructionArgumentNodeDefault("discriminator", numberTypeNode("u8"), numberValueNode(3), "omitted"),
          instructionArgumentNode("expiration", numberTypeNode("i64")),
          instructionArgumentNode("name", sizePrefixTypeNode(stringTypeNode("utf8"), numberTypeNode("u8"))),
          instructionArgumentNode("data", stringTypeNode("utf8"))>>)

first_updateRecord ==
    instructionNode("updateRecord",
        constantDiscriminatorNode(constantValueNode(numberTypeNode("u8"), numberValueNode(4))),
        <<instructionArgumentNodeDefault("discriminator", numberTypeNode("u8"), numberValueNode(4), "omitted"),
          instructionArgumentNode("data", stringTypeNode("utf8"))>>)

first_transferRecord ==
    instructionNode("transferRecord",
        constantDiscriminatorNode(constantValueNode(numberTypeNode("u8"), numberValueNode(5))),
        <<instructionArgumentNodeDefault("discriminator", numberTypeNode("u8"), numberValueNode(5), "omitted"),
          instructionArgumentNode("newOwner", publicKeyTypeNode)>>)

first_deleteRecord ==
    instructionNode("deleteRecord",
        constantDiscriminatorNode(constantValueNode(numberTypeNode("u8"), numberValueNode(6))),
        <<instructionArgumentNodeDefault("discriminator", numberTypeNode("u8"), numberValueNode(6), "omitted")>>)

\* freezeRecord declared under discriminator 8.
first_freezeRecord_disc8 ==
    instructionNode("freezeRecord",
        constantDiscriminatorNode(constantValueNode(numberTypeNode("u8"), numberValueNode(8))),
        <<instructionArgumentNodeDefault("discriminator", numberTypeNode("u8"), numberValueNode(8), "omitted"),
          instructionArgumentNode("isFrozen", booleanTypeNode)>>)

first_freezeRecord ==
    instructionNode("freezeRecord",
        constantDiscriminatorNode(constantValueNode(numberTypeNode("u8"), numberValueNode(7))),
        <<instructionArgumentNodeDefault("discriminator", numberTypeNode("u8"), numberValueNode(7), "omitted"),
          instructionArgumentNode("isFrozen", booleanTypeNode)>>)

first_root ==
    programNode("solana-record-service", "srsUi2TVUUCyGcZdopxJauk8ZBzgAaHHZCVUhm5ifPa",
        <<first_class, first_record>>,
        <<first_createClass,
          first_updateClassMetadata,
          first_freezeClass,
          first_createRecord,
          first_updateRecord,
          first_transferRecord,
          first_deleteRecord,
          first_freezeRecord>>)

\* The class account with metadata declared before name.
delegate_class_metadataFirst ==
    accountNode("class",
        constantDiscriminatorNode(constantValueNode(numberTypeNode("u8"), numberValueNode(1))),
        <<structFieldTypeNodeDefault("discriminator", numberTypeNode("u8"), numberValueNode(1), "omitted"),
          structFieldTypeNode("authority", publicKeyTypeNode),
          structFieldTypeNode("isPermissioned", booleanTypeNode),
          structFieldTypeNode("isFrozen", booleanTypeNode),
          structFieldTypeNode("metadata", stringTypeNode("utf8")),
          structFieldTypeNode("name", sizePrefixTypeNode(stringTypeNode("utf8"), numberTypeNode("u8")))>>)

delegate_class ==
    accountNode("class",
        constantDiscriminatorNode(constantValueNode(numberTypeNode("u8"), numberValueNode(1))),
        <<structFieldTypeNodeDefault("discriminator", numberTypeNode("u8"), numberValueNode(1), "omitted"),
          structFieldTypeNode("authority", publicKeyTypeNode),
          structFieldTypeNode("isPermissioned", booleanTypeNode),
          structFieldTypeNode("isFrozen", booleanTypeNode),
          structFieldTypeNode("name", sizePrefixTypeNode(stringTypeNode("utf8"), numberTypeNode("u8"))),
          structFieldTypeNode("metadata", stringTypeNode("utf8"))>>)

delegate_record ==
    accountNode("record",
        constantDiscriminatorNode(constantValueNode(numberTypeNode("u8"), numberValueNode(2))),
        <<structFieldTypeNodeDefault("discriminator", numberTypeNode("u8"), numberValueNode(2), "omitted"),
          structFieldTypeNode("class", publicKeyTypeNode),
          structFieldTypeNode("owner", publicKeyTypeNode),
          structFieldTypeNode("isFrozen", booleanTypeNode),
          structFieldTypeNode("hasAuthorityExtension", booleanTypeNode),
          structFieldTypeNode("expiry", numberTypeNode("i64")),
          structFieldTypeNode("name", sizePrefixTypeNode(stringTypeNode("utf8"), numberTypeNode("u8"))),
          structFieldTypeNode("data", stringTypeNode("utf8"))>>)

\* recordDelegate whose discriminator field defaults to 4 under the constant 3.
delegate_recordDelegate_default4 ==
    accountNode("recordDelegate",
        constantDiscriminatorNode(constantValueNode(numberTypeNode("u8"), numberValueNode(3))),
        <<structFieldTypeNodeDefault("discriminator", numberTypeNode("u8"), numberValueNode(4), "omitted"),
          structFieldTypeNode("record", publicKeyTypeNode),
          structFieldTypeNode("updateAuthority", publicKeyTypeNode),
          structFieldTypeNode("freezeAuthority", publicKeyTypeNode),
          structFieldTypeNode("transferAuthority", publicKeyTypeNode),
          structFieldTypeNode("burnAuthority", publicKeyTypeNode),
          structFieldTypeNode("authorityProgram", publicKeyTypeNode)>>)

delegate_recordDelegate ==
    accountNode("recordDelegate",
        constantDiscriminatorNode(constantValueNode(numberTypeNode("u8"), numberValueNode(3))),
        <<structFieldTypeNodeDefault("discriminator", numberTypeNode("u8"), numberValueNode(3), "omitted"),
          structFieldTypeNode("record", publicKeyTypeNode),
          structFieldTypeNode("updateAuthority", publicKeyTypeNode),
          structFieldTypeNode("freezeAuthority", publicKeyTypeNode),
          structFieldTypeNode("transferAuthority", publicKeyTypeNode),
          structFieldTypeNode("burnAuthority", publicKeyTypeNode),
          structFieldTypeNode("authorityProgram", publicKeyTypeNode)>>)

delegate_createClass ==
    instructionNode("createClass",
        constantDiscriminatorNode(constantValueNode(numberTypeNode("u8"), numberValueNode(0))),
        <<instructionArgumentNodeDefault("discriminator", numberTypeNode("u8"), numberValueNode(0), "omitted"),
          instructionArgumentNode("isPermissioned", booleanTypeNode),
          instructionArgumentNode("isFrozen", booleanTypeNode),
          instructionArgumentNode("name", sizePrefixTypeNode(stringTypeNode("utf8"), numberTypeNode("u8"))),
          instructionArgumentNode("metadata", stringTypeNode("utf8"))>>)

delegate_updateClassMetadata ==
    instructionNode("updateClassMetadata",
        constantDiscriminatorNode(constantValueNode(numberTypeNode("u8"), numberValueNode(1))),
        <<instructionArgumentNodeDefault("discriminator", numberTypeNode("u8"), numberValueNode(1), "omitted"),
          instructionArgumentNode("metadata", stringTypeNode("utf8"))>>)

delegate_freezeClass ==
    instructionNode("freezeClass",
        constantDiscriminatorNode(constantValueNode(numberTypeNode("u8"), numberValueNode(2))),
        <<instructionArgumentNodeDefault("discriminator", numberTypeNode("u8"), numberValueNode(2), "omitted"),
          instructionArgumentNode("isFrozen", booleanTypeNode)>>)

delegate_createRecord ==
    instructionNode("createRecord",
        constantDiscriminatorNode(constantValueNode(numberTypeNode("u8"), numberValueNode(3))),
        <<instructionArgumentNodeDefault("discriminator", numberTypeNode("u8"), numberValueNode(3), "omitted"),
          instructionArgumentNode("expiration", numberTypeNode("i64")),
          instructionArgumentNode("name", sizePrefixTypeNode(stringTypeNode("utf8"), numberTypeNode("u8"))),
          instructionArgumentNode("data", stringTypeNode("utf8"))>>)

delegate_updateRecord ==
    instructionNode("updateRecord",
        constantDiscriminatorNode(constantValueNode(numberTypeNode("u8"), numberValueNode(4))),
        <<instructionArgumentNodeDefault("discriminator", numberTypeNode("u8"), numberValueNode(4), "omitted"),
          instructionArgumentNode("data", stringTypeNode("utf8"))>>)

delegate_transferRecord ==
    instructionNode("transferRecord",
        constantDiscriminatorNode(constantValueNode(numberTypeNode("u8"), numberValueNode(5))),
        <<instructionArgumentNodeDefault("discriminator", numberTypeNode("u8"), numberValueNode(5), "omitted"),
          instructionArgumentNode("newOwner", publicKeyTypeNode)>>)

delegate_deleteRecord ==
    instructionNode("deleteRecord",
        constantDiscriminatorNode(constantValueNode(numberTypeNode("u8"), numberValueNode(6))),
        <<instructionArgumentNodeDefault("discriminator", numberTypeNode("u8"), numberValueNode(6), "omitted")>>)

delegate_freezeRecord ==
    instructionNode("freezeRecord",
        constantDiscriminatorNode(constantValueNode(numberTypeNode("u8"), numberValueNode(7))),
        <<instructionArgumentNodeDefault("discriminator", numberTypeNode("u8"), numberValueNode(7), "omitted"),
          instructionArgumentNode("isFrozen", booleanTypeNode)>>)

delegate_createRecordAuthorityDelegate ==
    instructionNode("createRecordAuthorityDelegate",
        constantDiscriminatorNode(constantValueNode(numberTypeNode("u8"), numberValueNode(8))),
        <<instructionArgumentNodeDefault("discriminator", numberTypeNode("u8"), numberValueNode(8), "omitted"),
          instructionArgumentNode("updateAuthority", publicKeyTypeNode),
          instructionArgumentNode("freezeAuthority", publicKeyTypeNode),
          instructionArgumentNode("transferAuthority", publicKeyTypeNode),
          instructionArgumentNode("burnAuthority", publicKeyTypeNode),
          instructionArgumentNode("authorityProgram", publicKeyTypeNode)>>)

delegate_updateRecordAuthorityDelegate ==
    instructionNode("updateRecordAuthorityDelegate",
        constantDiscriminatorNode(constantValueNode(numberTypeNode("u8"), numberValueNode(9))),
        <<instructionArgumentNodeDefault("discriminator", numberTypeNode("u8"), numberValueNode(9), "omitted"),
          instructionArgumentNode("updateAuthority", publicKeyTypeNode),
          instructionArgumentNode("freezeAuthority", publicKeyTypeNode),
          instructionArgumentNode("transferAuthority", publicKeyTypeNode),
          instructionArgumentNode("burnAuthority", publicKeyTypeNode),
          instructionArgumentNode("authorityProgram", publicKeyTypeNode)>>)

\* deleteRecordAuthorityDelegate declared under the discriminator of its predecessor.
delegate_deleteRecordAuthorityDelegate_disc9 ==
    instructionNode("deleteRecordAuthorityDelegate",
        constantDiscriminatorNode(constantValueNode(numberTypeNode("u8"), numberValueNode(9))),
        <<instructionArgumentNodeDefault("discriminator", numberTypeNode("u8"), numberValueNode(9), "omitted")>>)

delegate_deleteRecordAuthorityDelegate ==
    instructionNode("deleteRecordAuthorityDelegate",
        constantDiscriminatorNode(constantValueNode(numberTypeNode("u8"), numberValueNode(10))),
        <<instructionArgumentNodeDefault("discriminator", numberTypeNode("u8"), numberValueNode(10), "omitted")>>)

delegate_root ==
    programNode("solana-record-service", "srsUi2TVUUCyGcZdopxJauk8ZBzgAaHHZCVUhm5ifPa",
        <<delegate_class, delegate_record, delegate_recordDelegate>>,
        <<delegate_createClass,
          delegate_updateClassMetadata,
          delegate_freezeClass,
          delegate_createRecord,
          delegate_updateRecord,
          delegate_transferRecord,
          delegate_deleteRecord,
          delegate_freezeRecord,
          delegate_createRecordAuthorityDelegate,
          delegate_updateRecordAuthorityDelegate,
          delegate_deleteRecordAuthorityDelegate>>)

\* The class account with the size prefix of name left out.
latest_class_nameUnprefixed ==
    accountNode("class",
        constantDiscriminatorNode(constantValueNode(numberTypeNode("u8"), numberValueNode(1))),
        <<structFieldTypeNodeDefault("discriminator", numberTypeNode("u8"), numberValueNode(1), "omitted"),
          structFieldTypeNode("authority", publicKeyTypeNode),
          structFieldTypeNode("isPermissioned", booleanTypeNode),
          structFieldTypeNode("isFrozen", booleanTypeNode),
          structFieldTypeNode("name", stringTypeNode("utf8")),
          structFieldTypeNode("metadata", stringTypeNode("utf8"))>>)

\* The class account with a two-byte size prefix on name.
latest_class_u16Prefix ==
    accountNode("class",
        constantDiscriminatorNode(constantValueNode(numberTypeNode("u8"), numberValueNode(1))),
        <<structFieldTypeNodeDefault("discriminator", numberTypeNode("u8"), numberValueNode(1), "omitted"),
          structFieldTypeNode("authority", publicKeyTypeNode),
          structFieldTypeNode("isPermissioned", booleanTypeNode),
          structFieldTypeNode("isFrozen", booleanTypeNode),
          structFieldTypeNode("name", sizePrefixTypeNode(stringTypeNode("utf8"), numberTypeNode("u16"))),
          structFieldTypeNode("metadata", stringTypeNode("utf8"))>>)

\* The class account without isFrozen.
latest_class_noFrozen ==
    accountNode("class",
        constantDiscriminatorNode(constantValueNode(numberTypeNode("u8"), numberValueNode(1))),
        <<structFieldTypeNodeDefault("discriminator", numberTypeNode("u8"), numberValueNode(1), "omitted"),
          structFieldTypeNode("authority", publicKeyTypeNode),
          structFieldTypeNode("isPermissioned", booleanTypeNode),
          structFieldTypeNode("name", sizePrefixTypeNode(stringTypeNode("utf8"), numberTypeNode("u8"))),
          structFieldTypeNode("metadata", stringTypeNode("utf8"))>>)

\* The class account with discriminator declared as a plain field.
latest_class_discPlain ==
    accountNode("class",
        constantDiscriminatorNode(constantValueNode(numberTypeNode("u8"), numberValueNode(1))),
        <<structFieldTypeNode("discriminator", numberTypeNode("u8")),
          structFieldTypeNode("authority", publicKeyTypeNode),
          structFieldTypeNode("isPermissioned", booleanTypeNode),
          structFieldTypeNode("isFrozen", booleanTypeNode),
          structFieldTypeNode("name", sizePrefixTypeNode(stringTypeNode("utf8"), numberTypeNode("u8"))),
          structFieldTypeNode("metadata", stringTypeNode("utf8"))>>)

\* The class account with isFrozen declared as a u8.
latest_class_frozenU8 ==
    accountNode("class",
        constantDiscriminatorNode(constantValueNode(numberTypeNode("u8"), numberValueNode(1))),
        <<structFieldTypeNodeDefault("discriminator", numberTypeNode("u8"), numberValueNode(1), "omitted"),
          structFieldTypeNode("authority", publicKeyTypeNode),
          structFieldTypeNode("isPermissioned", booleanTypeNode),
          structFieldTypeNode("isFrozen", numberTypeNode("u8")),
          structFieldTypeNode("name", sizePrefixTypeNode(stringTypeNode("utf8"), numberTypeNode("u8"))),
          structFieldTypeNode("metadata", stringTypeNode("utf8"))>>)

latest_class ==
    accountNode("class",
        constantDiscriminatorNode(constantValueNode(numberTypeNode("u8"), numberValueNode(1))),
        <<structFieldTypeNodeDefault("discriminator", numberTypeNode("u8"), numberValueNode(1), "omitted"),
          structFieldTypeNode("authority", publicKeyTypeNode),
          structFieldTypeNode("isPermissioned", booleanTypeNode),
          structFieldTypeNode("isFrozen", booleanTypeNode),
          structFieldTypeNode("name", sizePrefixTypeNode(stringTypeNode("utf8"), numberTypeNode("u8"))),
          structFieldTypeNode("metadata", stringTypeNode("utf8"))>>)

\* The record account declared under discriminator 3.
latest_record_disc3 ==
    accountNode("record",
        constantDiscriminatorNode(constantValueNode(numberTypeNode("u8"), numberValueNode(3))),
        <<structFieldTypeNodeDefault("discriminator", numberTypeNode("u8"), numberValueNode(3), "omitted"),
          structFieldTypeNode("class", publicKeyTypeNode),
          structFieldTypeNodeDefault("ownerType", numberTypeNode("u8"), numberValueNode(0), "omitted"),
          structFieldTypeNode("owner", publicKeyTypeNode),
          structFieldTypeNode("isFrozen", booleanTypeNode),
          structFieldTypeNode("expiry", numberTypeNode("i64")),
          structFieldTypeNode("name", sizePrefixTypeNode(stringTypeNode("utf8"), numberTypeNode("u8"))),
          structFieldTypeNode("data", stringTypeNode("utf8"))>>)

\* The record account without the ownerType byte.
latest_record_noOwnerType ==
    accountNode("record",
        constantDiscriminatorNode(constantValueNode(numberTypeNode("u8"), numberValueNode(2))),
        <<structFieldTypeNodeDefault("discriminator", numberTypeNode("u8"), numberValueNode(2), "omitted"),
          structFieldTypeNode("class", publicKeyTypeNode),
          structFieldTypeNode("owner", publicKeyTypeNode),
          structFieldTypeNode("isFrozen", booleanTypeNode),
          structFieldTypeNode("expiry", numberTypeNode("i64")),
          structFieldTypeNode("name", sizePrefixTypeNode(stringTypeNode("utf8"), numberTypeNode("u8"))),
          structFieldTypeNode("data", stringTypeNode("utf8"))>>)

\* The record account with ownerType declared as a plain field.
latest_record_ownerTypePlain ==
    accountNode("record",
        constantDiscriminatorNode(constantValueNode(numberTypeNode("u8"), numberValueNode(2))),
        <<structFieldTypeNodeDefault("discriminator", numberTypeNode("u8"), numberValueNode(2), "omitted"),
          structFieldTypeNode("class", publicKeyTypeNode),
          structFieldTypeNode("ownerType", numberTypeNode("u8")),
          structFieldTypeNode("owner", publicKeyTypeNode),
          structFieldTypeNode("isFrozen", booleanTypeNode),
          structFieldTypeNode("expiry", numberTypeNode("i64")),
          structFieldTypeNode("name", sizePrefixTypeNode(stringTypeNode("utf8"), numberTypeNode("u8"))),
          structFieldTypeNode("data", stringTypeNode("utf8"))>>)

\* The record account with class declared before discriminator.
latest_record_classFirst ==
    accountNode("record",
        constantDiscriminatorNode(constantValueNode(numberTypeNode("u8"), numberValueNode(2))),
        <<structFieldTypeNode("class", publicKeyTypeNode),
          structFieldTypeNodeDefault("discriminator", numberTypeNode("u8"), numberValueNode(2), "omitted"),
          structFieldTypeNodeDefault("ownerType", numberTypeNode("u8"), numberValueNode(0), "omitted"),
          structFieldTypeNode("owner", publicKeyTypeNode),
          structFieldTypeNode("isFrozen", booleanTypeNode),
          structFieldTypeNode("expiry", numberTypeNode("i64")),
          structFieldTypeNode("name", sizePrefixTypeNode(stringTypeNode("utf8"), numberTypeNode("u8"))),
          structFieldTypeNode("data", stringTypeNode("utf8"))>>)

\* The record account with expiry declared before isFrozen.
latest_record_expiryFirst ==
    accountNode("record",
        constantDiscriminatorNode(constantValueNode(numberTypeNode("u8"), numberValueNode(2))),
        <<structFieldTypeNodeDefault("discriminator", numberTypeNode("u8"), numberValueNode(2), "omitted"),
          structFieldTypeNode("class", publicKeyTypeNode),
          structFieldTypeNodeDefault("ownerType", numberTypeNode("u8"), numberValueNode(0), "omitted"),
          structFieldTypeNode("owner", publicKeyTypeNode),
          structFieldTypeNode("expiry", numberTypeNode("i64")),
          structFieldTypeNode("isFrozen", booleanTypeNode),
          structFieldTypeNode("name", sizePrefixTypeNode(stringTypeNode("utf8"), numberTypeNode("u8"))),
          structFieldTypeNode("data", stringTypeNode("utf8"))>>)

latest_record ==
    accountNode("record",
        constantDiscriminatorNode(constantValueNode(numberTypeNode("u8"), numberValueNode(2))),
        <<structFieldTypeNodeDefault("discriminator", numberTypeNode("u8"), numberValueNode(2), "omitted"),
          structFieldTypeNode("class", publicKeyTypeNode),
          structFieldTypeNodeDefault("ownerType", numberTypeNode("u8"), numberValueNode(0), "omitted"),
          structFieldTypeNode("owner", publicKeyTypeNode),
          structFieldTypeNode("isFrozen", booleanTypeNode),
          structFieldTypeNode("expiry", numberTypeNode("i64")),
          structFieldTypeNode("name", sizePrefixTypeNode(stringTypeNode("utf8"), numberTypeNode("u8"))),
          structFieldTypeNode("data", stringTypeNode("utf8"))>>)

\* createClass with isFrozen declared before isPermissioned.
latest_createClass_swapped ==
    instructionNode("createClass",
        constantDiscriminatorNode(constantValueNode(numberTypeNode("u8"), numberValueNode(0))),
        <<instructionArgumentNodeDefault("discriminator", numberTypeNode("u8"), numberValueNode(0), "omitted"),
          instructionArgumentNode("isFrozen", booleanTypeNode),
          instructionArgumentNode("isPermissioned", booleanTypeNode),
          instructionArgumentNode("name", sizePrefixTypeNode(stringTypeNode("utf8"), numberTypeNode("u8"))),
          instructionArgumentNode("metadata", stringTypeNode("utf8"))>>)

\* createClass with isFrozen declared with an omitted default.
latest_createClass_frozenDefault ==
    instructionNode("createClass",
        constantDiscriminatorNode(constantValueNode(numberTypeNode("u8"), numberValueNode(0))),
        <<instructionArgumentNodeDefault("discriminator", numberTypeNode("u8"), numberValueNode(0), "omitted"),
          instructionArgumentNode("isPermissioned", booleanTypeNode),
          instructionArgumentNodeDefault("isFrozen", booleanTypeNode, FALSE, "omitted"),
          instructionArgumentNode("name", sizePrefixTypeNode(stringTypeNode("utf8"), numberTypeNode("u8"))),
          instructionArgumentNode("metadata", stringTypeNode("utf8"))>>)

latest_createClass ==
    instructionNode("createClass",
        constantDiscriminatorNode(constantValueNode(numberTypeNode("u8"), numberValueNode(0))),
        <<instructionArgumentNodeDefault("discriminator", numberTypeNode("u8"), numberValueNode(0), "omitted"),
          instructionArgumentNode("isPermissioned", booleanTypeNode),
          instructionArgumentNode("isFrozen", booleanTypeNode),
          instructionArgumentNode("name", sizePrefixTypeNode(stringTypeNode("utf8"), numberTypeNode("u8"))),
          instructionArgumentNode("metadata", stringTypeNode("utf8"))>>)

latest_updateClassMetadata ==
    instructionNode("updateClassMetadata",
        constantDiscriminatorNode(constantValueNode(numberTypeNode("u8"), numberValueNode(1))),
        <<instructionArgumentNodeDefault("discriminator", numberTypeNode("u8"), numberValueNode(1), "omitted"),
          instructionArgumentNode("metadata", stringTypeNode("utf8"))>>)

\* freezeClass without its isFrozen argument.
latest_freezeClass_noArgument ==
    instructionNode("freezeClass",
        constantDiscriminatorNode(constantValueNode(numberTypeNode("u8"), numberValueNode(2))),
        <<instructionArgumentNodeDefault("discriminator", numberTypeNode("u8"), numberValueNode(2), "omitted")>>)

latest_freezeClass ==
    instructionNode("freezeClass",
        constantDiscriminatorNode(constantValueNode(numberTypeNode("u8"), numberValueNode(2))),
        <<instructionArgumentNodeDefault("discriminator", numberTypeNode("u8"), numberValueNode(2), "omitted"),
          instructionArgumentNode("isFrozen", booleanTypeNode)>>)

latest_createRecord ==
    instructionNode("createRecord",
        constantDiscriminatorNode(constantValueNode(numberTypeNode("u8"), numberValueNode(3))),
        <<instructionArgumentNodeDefault("discriminator", numberTypeNode("u8"), numberValueNode(3), "omitted"),
          instructionArgumentNode("expiration", numberTypeNode("i64")),
          instructionArgumentNode("name", sizePrefixTypeNode(stringTypeNode("utf8"), numberTypeNode("u8"))),
          instructionArgumentNode("data", stringTypeNode("utf8"))>>)

latest_updateRecord ==
    instructionNode("updateRecord",
        constantDiscriminatorNode(constantValueNode(numberTypeNode("u8"), numberValueNode(4))),
        <<instructionArgumentNodeDefault("discriminator", numberTypeNode("u8"), numberValueNode(4), "omitted"),
          instructionArgumentNode("data", stringTypeNode("utf8"))>>)

\* transferRecord with its argument named owner.
latest_transferRecord_renamed ==
    instructionNode("transferRecord",
        constantDiscriminatorNode(constantValueNode(numberTypeNode("u8"), numberValueNode(5))),
        <<instructionArgumentNodeDefault("discriminator", numberTypeNode("u8"), numberValueNode(5), "omitted"),
          instructionArgumentNode("owner", publicKeyTypeNode)>>)

\* transferRecord with newOwner behind a length byte.
latest_transferRecord_prefixed ==
    instructionNode("transferRecord",
        constantDiscriminatorNode(constantValueNode(numberTypeNode("u8"), numberValueNode(5))),
        <<instructionArgumentNodeDefault("discriminator", numberTypeNode("u8"), numberValueNode(5), "omitted"),
          instructionArgumentNode("newOwner", sizePrefixTypeNode(stringTypeNode("utf8"), numberTypeNode("u8")))>>)

latest_transferRecord ==
    instructionNode("transferRecord",
        constantDiscriminatorNode(constantValueNode(numberTypeNode("u8"), numberValueNode(5))),
        <<instructionArgumentNodeDefault("discriminator", numberTypeNode("u8"), numberValueNode(5), "omitted"),
          instructionArgumentNode("newOwner", publicKeyTypeNode)>>)

\* deleteRecord with a trailing unprefixed string argument.
latest_deleteRecord_withData ==
    instructionNode("deleteRecord",
        constantDiscriminatorNode(constantValueNode(numberTypeNode("u8"), numberValueNode(6))),
        <<instructionArgumentNodeDefault("discriminator", numberTypeNode("u8"), numberValueNode(6), "omitted"),
          instructionArgumentNode("data", stringTypeNode("utf8"))>>)

latest_deleteRecord ==
    instructionNode("deleteRecord",
        constantDiscriminatorNode(constantValueNode(numberTypeNode("u8"), numberValueNode(6))),
        <<instructionArgumentNodeDefault("discriminator", numberTypeNode("u8"), numberValueNode(6), "omitted")>>)

latest_freezeRecord ==
    instructionNode("freezeRecord",
        constantDiscriminatorNode(constantValueNode(numberTypeNode("u8"), numberValueNode(7))),
        <<instructionArgumentNodeDefault("discriminator", numberTypeNode("u8"), numberValueNode(7), "omitted"),
          instructionArgumentNode("isFrozen", booleanTypeNode)>>)

latest_mintTokenizedRecord ==
    instructionNode("mintTokenizedRecord",
        constantDiscriminatorNode(constantValueNode(numberTypeNode("u8"), numberValueNode(8))),
        <<instructionArgumentNodeDefault("discriminator", numberTypeNode("u8"), numberValueNode(8), "omitted")>>)

latest_updateTokenizedRecord ==
    instructionNode("updateTokenizedRecord",
        constantDiscriminatorNode(constantValueNode(numberTypeNode("u8"), numberValueNode(9))),
        <<instructionArgumentNodeDefault("discriminator", numberTypeNode("u8"), numberValueNode(9), "omitted"),
          instructionArgumentNode("newData", stringTypeNode("utf8"))>>)

latest_freezeTokenizedRecord ==
    instructionNode("freezeTokenizedRecord",
        constantDiscriminatorNode(constantValueNode(numberTypeNode("u8"), numberValueNode(10))),
        <<instructionArgumentNodeDefault("discriminator", numberTypeNode("u8"), numberValueNode(10), "omitted"),
          instructionArgumentNode("isFrozen", booleanTypeNode)>>)

latest_transferTokenizedRecord ==
    instructionNode("transferTokenizedRecord",
        constantDiscriminatorNode(constantValueNode(numberTypeNode("u8"), numberValueNode(11))),
        <<instructionArgumentNodeDefault("discriminator", numberTypeNode("u8"), numberValueNode(11), "omitted")>>)

\* burnTokenizedRecord declared one past the next free discriminator.
latest_burnTokenizedRecord_disc13 ==
    instructionNode("burnTokenizedRecord",
        constantDiscriminatorNode(constantValueNode(numberTypeNode("u8"), numberValueNode(13))),
        <<instructionArgumentNodeDefault("discriminator", numberTypeNode("u8"), numberValueNode(13), "omitted")>>)

latest_burnTokenizedRecord ==
    instructionNode("burnTokenizedRecord",
        constantDiscriminatorNode(constantValueNode(numberTypeNode("u8"), numberValueNode(12))),
        <<instructionArgumentNodeDefault("discriminator", numberTypeNode("u8"), numberValueNode(12), "omitted")>>)

latest_root ==
    programNode("solana-record-service", "srsUi2TVUUCyGcZdopxJauk8ZBzgAaHHZCVUhm5ifPa",
        <<latest_class, latest_record>>,
        <<latest_createClass,
          latest_updateClassMetadata,
          latest_freezeClass,
          latest_createRecord,
          latest_updateRecord,
          latest_transferRecord,
          latest_deleteRecord,
          latest_freezeRecord,
          latest_mintTokenizedRecord,
          latest_updateTokenizedRecord,
          latest_freezeTokenizedRecord,
          latest_transferTokenizedRecord,
          latest_burnTokenizedRecord>>)

Revisions == <<"earliest", "first", "delegate", "latest">>

rootOf(rev) ==
    CASE rev = "earliest" -> earliest_root
      [] rev = "first"    -> first_root
      [] rev = "delegate" -> delegate_root
      [] OTHER            -> latest_root

Families == {"account", "instruction"}

\* Both families kept in one list, accounts first.
SchemasOf_merged(program, family) ==
    program.accounts \o program.instructions

\* The schemas of one family of a program, in declaration order.
SchemasOf(program, family) ==
    IF family = "account" THEN program.accounts ELSE program.instructions

SchemaNames(program, family) ==
    {SchemasOf(program, family)[i].name : i \in DOMAIN SchemasOf(program, family)}

SchemaNamed(program, family, name) ==
    LET ss == SchemasOf(program, family)
    IN  ss[CHOOSE i \in DOMAIN ss : ss[i].name = name]

\* The discriminator constant a schema is registered under.
DiscriminatorOf(schema) == schema.discriminators[1].constant.value

\* A field is a fixed-value field when it carries a default that the
\* caller cannot override (defaultValueStrategy 'omitted').
IsFixed(field) == field.hasDefault /\ field.defaultValueStrategy = "omitted"

(***************************************************************************)
(* Bytes, integers and UTF-8.                                              *)
(***************************************************************************)
Byte == 0..255

PublicKeySize == 32

\* Width in bytes of a number format.
NumberWidth(format) ==
    CASE format = "u8"  -> 1
      [] format = "u16" -> 2
      [] format = "u32" -> 4
      [] OTHER          -> 8

RECURSIVE Pow256(_)
Pow256(n) == IF n = 0 THEN 1 ELSE 256 * Pow256(n - 1)

\* Largest value an unsigned length prefix of the format can carry.
PrefixCapacity(format) == Pow256(NumberWidth(format)) - 1

\* Little-endian bytes of a natural number, exactly w bytes.
RECURSIVE NatToLE(_, _)
NatToLE(n, w) == IF w = 0 THEN <<>> ELSE <<n % 256>> \o NatToLE(n \div 256, w - 1)

RECURSIVE LEToNat(_)
LEToNat(bytes) ==
    IF bytes = <<>> THEN 0 ELSE bytes[1] + 256 * LEToNat(Tail(bytes))

\* A 64-bit signed integer is held as sign and magnitude, the magnitude as
\* eight base-256 digits, least significant first (a 64-bit value does not
\* fit the checker's integers).  Zero is never negative.
I64(neg, mag) == [neg |-> neg, mag |-> mag]

ZeroDigits == [i \in 1..8 |-> 0]

IsZeroDigits(d) == \A i \in 1..8 : d[i] = 0

\* Magnitude 2^63: only the minimum value has it.
IsTwo63(d) == d[8] = 128 /\ \A i \in 1..7 : d[i] = 0

InI64Range(x) ==
    /\ Len(x.mag) = 8
    /\ \A i \in 1..8 : x.mag[i] \in Byte
    /\ IF x.neg THEN (x.mag[8] < 128 \/ IsTwo63(x.mag)) /\ ~IsZeroDigits(x.mag)
                ELSE x.mag[8] < 128

\* Carry into digit i when one is added to the digit string d.
RECURSIVE CarryInto(_, _)
CarryInto(d, i) == IF i = 1 THEN TRUE ELSE d[i - 1] = 255 /\ CarryInto(d, i - 1)

\* d + 1 modulo 2^64.
AddOne(d) == [i \in 1..8 |-> IF CarryInto(d, i) THEN (d[i] + 1) % 256 ELSE d[i]]

Invert(d) == [i \in 1..8 |-> 255 - d[i]]

\* Two's complement, little-endian.
I64ToBytes(x) == IF x.neg THEN AddOne(Invert(x.mag)) ELSE x.mag

BytesToI64(b) ==
    IF b[8] >= 128 THEN I64(TRUE, AddOne(Invert(b))) ELSE I64(FALSE, b)

\* UTF-8 encoding of one code point.
Utf8EncodeChar(c) ==
    IF c < 128 THEN <<c>>
    ELSE IF c < 2048 THEN <<192 + (c \div 64), 128 + (c % 64)>>
    ELSE IF c < 65536 THEN
        <<224 + (c \div 4096), 128 + ((c \div 64) % 64), 128 + (c % 64)>>
    ELSE <<240 + (c \div 262144), 128 + ((c \div 4096) % 64),
           128 + ((c \div 64) % 64), 128 + (c % 64)>>

\* UTF-8 encoding of the characters lo..hi of a string (a sequence of code
\* points): the concatenation of the characters' encodings, in order.
RECURSIVE Utf8EncodeRange(_, _, _)
Utf8EncodeRange(s, lo, hi) ==
    IF lo > hi THEN <<>>
    ELSE IF lo = hi THEN Utf8EncodeChar(s[lo])
    ELSE LET mid == (lo + hi) \div 2
         IN  Utf8EncodeRange(s, lo, mid) \o Utf8EncodeRange(s, mid + 1, hi)

Utf8Encode(s) == Utf8EncodeRange(s, 1, Len(s))

IsContinuation(b) == b >= 128 /\ b < 192

\* Number of bytes of the sequence a lead byte opens (0: not a lead byte).
Utf8SeqLen(lead) ==
    IF lead < 128 THEN 1
    ELSE IF lead >= 194 /\ lead < 224 THEN 2
    ELSE IF lead >= 224 /\ lead < 240 THEN 3
    ELSE IF lead >= 240 /\ lead < 245 THEN 4
    ELSE 0

\* The code point of the n-byte sequence that starts at b[i].
Utf8CodePoint(b, i, n) ==
    CASE n = 1 -> b[i]
      [] n = 2 -> (b[i] - 192) * 64 + (b[i + 1] - 128)
      [] n = 3 -> (b[i] - 224) * 4096 + (b[i + 1] - 128) * 64 + (b[i + 2] - 128)
      [] OTHER -> (b[i] - 240) * 262144 + (b[i + 1] - 128) * 4096
                  + (b[i + 2] - 128) * 64 + (b[i + 3] - 128)

\* Smallest code point that needs n bytes (shorter forms are overlong).
Utf8MinCodePoint(n) ==
    CASE n = 1 -> 0 [] n = 2 -> 128 [] n = 3 -> 2048 [] OTHER -> 65536

IsScalarValue(c) == c >= 0 /\ c <= 1114111 /\ ~(c >= 55296 /\ c <= 57343)

\* A well-formed sequence starts at b[i]: a lead byte, its continuation
\* bytes, no overlong form, a scalar value.
Utf8WellFormedAt(b, i) ==
    LET n == Utf8SeqLen(b[i])
    IN  /\ n # 0
        /\ i + n - 1 <= Len(b)
        /\ \A j \in (i + 1)..(i + n - 1) : IsContinuation(b[j])
        /\ i + n <= Len(b) => ~IsContinuation(b[i + n])
        /\ Utf8CodePoint(b, i, n) >= Utf8MinCodePoint(n)
        /\ IsScalarValue(Utf8CodePoint(b, i, n))

\* The bytes are well-formed UTF-8: they start with a sequence and every
\* byte that is not a continuation byte starts a well-formed sequence.
Utf8Valid(b) ==
    /\ b # <<>> => ~IsContinuation(b[1])
    /\ \A i \in DOMAIN b : ~IsContinuation(b[i]) => Utf8WellFormedAt(b, i)

\* The code points of the sequences that start in b[lo..hi], in order.
RECURSIVE Utf8CodePoints(_, _, _)
Utf8CodePoints(b, lo, hi) ==
    IF lo > hi THEN <<>>
    ELSE IF lo = hi
       THEN IF IsContinuation(b[lo]) THEN <<>>
            ELSE <<Utf8CodePoint(b, lo, Utf8SeqLen(b[lo]))>>
    ELSE LET mid == (lo + hi) \div 2
         IN  Utf8CodePoints(b, lo, mid) \o Utf8CodePoints(b, mid + 1, hi)

\* Strict UTF-8 decoding: [ok, str].
Utf8Decode(b) ==
    IF Utf8Valid(b) THEN [ok |-> TRUE, str |-> Utf8CodePoints(b, 1, Len(b))]
    ELSE [ok |-> FALSE, str |-> <<>>]

(***************************************************************************)
(* Record codec (specification section 4.1).                               *)
(***************************************************************************)
EmptyMap == [n \in {} |-> 0]

EncOk(bytes) == [st |-> "ok", bytes |-> bytes, err |-> "none"]

\* A failing encode produces no bytes.
EncErr(err) == [st |-> "err", bytes |-> <<>>, err |-> err]

\* Encoding of one value of a type.
EncodeType(type, v) ==
    CASE type.kind = "numberTypeNode" ->
            IF type.format = "i64"
               THEN IF InI64Range(v) THEN EncOk(I64ToBytes(v))
                                     ELSE EncErr("TypeMismatchError")
               ELSE IF v \in 0..PrefixCapacity(type.format)
                       THEN EncOk(NatToLE(v, NumberWidth(type.format)))
                       ELSE EncErr("TypeMismatchError")
      [] type.kind = "booleanTypeNode" -> EncOk(<<IF v THEN 1 ELSE 0>>)
      [] type.kind = "publicKeyTypeNode" ->
            IF Len(v) = PublicKeySize THEN EncOk(v) ELSE EncErr("TypeMismatchError")
      [] type.kind = "stringTypeNode" -> EncOk(Utf8Encode(v))
      [] OTHER -> \* sizePrefixTypeNode over a string
            LET bytes == Utf8Encode(v)
            IN  IF Len(bytes) > PrefixCapacity(type.prefix.format)
                   THEN EncErr("EncodingLimitError")
                   ELSE EncOk(NatToLE(Len(bytes), NumberWidth(type.prefix.format))
                              \o bytes)

\* An optional value: absent, or present with a value.
Absent == [present |-> FALSE]

Present(v) == [present |-> TRUE, value |-> v]

\* Encoding of Option<T>: byte 0 if absent, byte 1 and the item if present.
EncodeOption(type, v) ==
    IF ~v.present THEN EncOk(<<0>>)
    ELSE LET item == EncodeType(type.item, v.value)
         IN  IF item.st = "err" THEN item ELSE EncOk(<<1>> \o item.bytes)

EncodeValue(type, v) ==
    IF type.kind = "optionTypeNode" THEN EncodeOption(type, v) ELSE EncodeType(type, v)

\* Encoding of one field: the constant of a fixed-value field whatever the
\* caller supplied, otherwise the caller's value, which must be present.
EncodeField(field, values) ==
    IF IsFixed(field) THEN EncodeValue(field.type, field.defaultValue)
    ELSE IF field.name \notin DOMAIN values THEN EncErr("MissingFieldError")
    ELSE EncodeValue(field.type, values[field.name])

\* Concatenation of the field encodings from field i on; the first failing
\* field decides the error.
RECURSIVE EncodeFrom(_, _, _)
EncodeFrom(fields, i, values) ==
    IF i > Len(fields) THEN EncOk(<<>>)
    ELSE LET head == EncodeField(fields[i], values)
         IN  IF head.st = "err" THEN head
             ELSE LET rest == EncodeFrom(fields, i + 1, values)
                  IN  IF rest.st = "err" THEN rest
                      ELSE EncOk(head.bytes \o rest.bytes)

encode(schema, values) == EncodeFrom(schema.fields, 1, values)

ReadOk(value, next) == [st |-> "ok", value |-> value, next |-> next, err |-> "none"]

ReadErr(err) == [st |-> "err", value |-> 0, next |-> 0, err |-> err]

\* Bytes cur+1 .. cur+n of the buffer.
Slice(buf, cur, n) == SubSeq(buf, cur + 1, cur + n)

\* A Bool is one byte, 0 or 1; any other byte is a decode error.  The
\* specification names no error kind for it; TypeMismatchError is the only
\* kind of its closed list that fits.
DecodeBool(buf, cur) ==
    IF cur + 1 > Len(buf) THEN ReadErr("TruncatedInputError")
    ELSE IF buf[cur + 1] \notin {0, 1} THEN ReadErr("TypeMismatchError")
    ELSE ReadOk(buf[cur + 1] = 1, cur + 1)

\* Decoding of one value of a type with the cursor at cur (bytes consumed
\* so far): the value and the new cursor, or the error.
DecodeType(type, buf, cur) ==
    CASE type.kind = "numberTypeNode" ->
            LET w == NumberWidth(type.format)
            IN  IF cur + w > Len(buf) THEN ReadErr("TruncatedInputError")
                ELSE IF type.format = "i64"
                   THEN ReadOk(BytesToI64(Slice(buf, cur, w)), cur + w)
                   ELSE ReadOk(LEToNat(Slice(buf, cur, w)), cur + w)
      [] type.kind = "booleanTypeNode" -> DecodeBool(buf, cur)
      [] type.kind = "publicKeyTypeNode" ->
            IF cur + PublicKeySize > Len(buf) THEN ReadErr("TruncatedInputError")
            ELSE ReadOk(Slice(buf, cur, PublicKeySize), cur + PublicKeySize)
      [] type.kind = "stringTypeNode" ->
            LET s == Utf8Decode(Slice(buf, cur, Len(buf) - cur))
            IN  IF s.ok THEN ReadOk(s.str, Len(buf)) ELSE ReadErr("InvalidUtf8Error")
      [] OTHER -> \* sizePrefixTypeNode over a string
            LET w == NumberWidth(type.prefix.format)
            IN  IF cur + w > Len(buf) THEN ReadErr("TruncatedInputError")
                ELSE LET n == LEToNat(Slice(buf, cur, w))
                     IN  IF cur + w + n > Len(buf) THEN ReadErr("TruncatedInputError")
                         ELSE LET s == Utf8Decode(Slice(buf, cur + w, n))
                              IN  IF s.ok THEN ReadOk(s.str, cur + w + n)
                                  ELSE ReadErr("InvalidUtf8Error")

\* Option<T> decoded with every presence byte other than 0 taken as present.
DecodeOption_lenient(type, buf, cur) ==
    IF cur + 1 > Len(buf) THEN ReadErr("TruncatedInputError")
    ELSE IF buf[cur + 1] = 0 THEN ReadOk(Absent, cur + 1)
    ELSE LET item == DecodeType(type.item, buf, cur + 1)
         IN  IF item.st = "err" THEN item
             ELSE ReadOk(Present(item.value), item.next)

\* Decoding of Option<T>: one presence byte, which must be 0 or 1; after 0
\* nothing more is consumed, after 1 the item is decoded.
DecodeOption(type, buf, cur) ==
    IF cur + 1 > Len(buf) THEN ReadErr("TruncatedInputError")
    ELSE IF buf[cur + 1] \notin {0, 1} THEN ReadErr("InvalidOptionTagError")
    ELSE IF buf[cur + 1] = 0 THEN ReadOk(Absent, cur + 1)
    ELSE LET item == DecodeType(type.item, buf, cur + 1)
         IN  IF item.st = "err" THEN item
             ELSE ReadOk(Present(item.value), item.next)

DecodeValue(type, buf, cur) ==
    IF type.kind = "optionTypeNode" THEN DecodeOption(type, buf, cur)
    ELSE DecodeType(type, buf, cur)

DecOk(values, cursor) == [st |-> "ok", values |-> values, err |-> "none", cursor |-> cursor]

\* A failing decode returns no value mapping.
DecErr(err, cursor) == [st |-> "err", values |-> EmptyMap, err |-> err, cursor |-> cursor]

\* Decoding of the fields from field i on, left to right, with the cursor
\* at cur and the values read so far in acc.  A fixed-value field must read
\* back as its constant.  After the last field the cursor must be at the
\* end of the buffer.
RECURSIVE DecodeFrom(_, _, _, _, _)
DecodeFrom(fields, i, buf, cur, acc) ==
    IF i > Len(fields)
       THEN IF cur = Len(buf) THEN DecOk(acc, cur) ELSE DecErr("TrailingDataError", cur)
    ELSE LET f == fields[i]
             r == DecodeValue(f.type, buf, cur)
         IN  IF r.st = "err" THEN DecErr(r.err, cur)
             ELSE IF IsFixed(f) /\ r.value # f.defaultValue
                THEN DecErr("DiscriminatorMismatchError", cur)
             ELSE DecodeFrom(fields, i + 1, buf, r.next, acc @@ (f.name :> r.value))

decode(schema, buf) == DecodeFrom(schema.fields, 1, buf, 0, EmptyMap)

DispOk(name) == [st |-> "ok", name |-> name, err |-> "none", family |-> "none"]

DispErr(err) == [st |-> "err", name |-> "none", err |-> err, family |-> "none"]

\* Discriminator-based dispatch: the schema of the family registered under
\* the first byte of the buffer.
dispatch(program, family, buf) ==
    LET ss == SchemasOf(program, family)
    IN  IF buf = <<>> THEN DispErr("TruncatedInputError")
        ELSE IF \E i \in DOMAIN ss : DiscriminatorOf(ss[i]) = buf[1]
           THEN DispOk(ss[CHOOSE i \in DOMAIN ss :
                             /\ DiscriminatorOf(ss[i]) = buf[1]
                             /\ \A j \in 1..(i - 1) : DiscriminatorOf(ss[j]) # buf[1]].name)
           ELSE DispErr("UnknownDiscriminatorError")

\* The value mapping with every fixed-value field set to its constant.
RECURSIVE MaterializeFrom(_, _, _)
MaterializeFrom(fields, i, values) ==
    IF i > Len(fields) THEN EmptyMap
    ELSE LET f == fields[i]
             rest == MaterializeFrom(fields, i + 1, values)
         IN  IF IsFixed(f) THEN (f.name :> f.defaultValue) @@ rest
             ELSE IF f.name \in DOMAIN values THEN (f.name :> values[f.name]) @@ rest
             ELSE rest

Materialize(schema, values) == MaterializeFrom(schema.fields, 1, values)

(***************************************************************************)
(* Inputs.                                                                 *)
(***************************************************************************)
\* Longest run of bytes appended to a buffer in transit.
MaxExtra == 2

\* Byte values written over a byte of a buffer, or appended to it.
PokeBytes == {0, 1, 2, 255}

KeyOf(b) == [i \in 1..PublicKeySize |-> b]

\* The key of the field at index i of a sample mapping: every field and
\* every byte position gets its own value.
SampleKey(i) == [j \in 1..PublicKeySize |-> (i * PublicKeySize + j) % 256]

I64Values ==
    { I64(FALSE, ZeroDigits),
      I64(FALSE, [i \in 1..8 |-> IF i = 1 THEN 1 ELSE 0]),
      I64(TRUE,  [i \in 1..8 |-> IF i = 1 THEN 1 ELSE 0]),
      I64(FALSE, [i \in 1..8 |-> IF i = 8 THEN 127 ELSE 255]),
      I64(TRUE,  [i \in 1..8 |-> IF i = 8 THEN 128 ELSE 0]) }

MinusOne == I64(TRUE, [i \in 1..8 |-> IF i = 1 THEN 1 ELSE 0])

\* Strings are sequences of code points.
StrTwitter == <<116, 119, 105, 116, 116, 101, 114>>

StrTest == <<116, 101, 115, 116>>

\* One two-byte character (e with acute accent).
StrAccent == <<233>>

\* 128 characters, 255 bytes of UTF-8.
StrLong255 == [i \in 1..128 |-> IF i = 128 THEN 97 ELSE 233]

\* 128 characters, 256 bytes of UTF-8.
StrLong256 == [i \in 1..128 |-> 233]

Names == {<<>>, StrAccent, StrTwitter, StrLong255, StrLong256}

Texts == {<<>>, StrTest}

\* The values a caller may supply for the field at index i.  Mode "wide"
\* ranges over every combination; mode "sample" fixes one well-formed value
\* per field.
ValuesFor(field, i, mode) ==
    LET type == field.type
    IN  CASE type.kind = "booleanTypeNode" ->
                IF mode = "wide" THEN BOOLEAN ELSE {TRUE}
          [] type.kind = "publicKeyTypeNode" ->
                IF mode = "wide" THEN {KeyOf(17), SampleKey(0)} ELSE {SampleKey(i)}
          [] type.kind = "numberTypeNode" ->
                IF type.format = "i64"
                   THEN IF mode = "wide" THEN I64Values ELSE {MinusOne}
                   ELSE {0, PrefixCapacity(type.format)}
          [] type.kind = "stringTypeNode" ->
                IF mode = "wide" THEN Texts ELSE {StrTest}
          [] OTHER ->
                IF mode = "wide" THEN Names
                ELSE IF mode = "missing" THEN {StrAccent, StrLong256}
                ELSE {StrAccent}

\* Every value mapping that supplies each non-fixed field from field i on.
RECURSIVE MappingsFrom(_, _, _)
MappingsFrom(fields, i, mode) ==
    IF i > Len(fields) THEN {EmptyMap}
    ELSE IF IsFixed(fields[i]) THEN MappingsFrom(fields, i + 1, mode)
    ELSE { (fields[i].name :> v) @@ m :
             v \in ValuesFor(fields[i], i, mode),
             m \in MappingsFrom(fields, i + 1, mode) }

Mappings(schema, mode) == MappingsFrom(schema.fields, 1, mode)

\* Values a caller may supply under the name of a fixed-value field.
OverrideValues == {1, 255}

\* Every mapping that extends values by a value for some of the fixed-value
\* fields from field i on.
RECURSIVE SuppliedFrom(_, _, _)
SuppliedFrom(fields, i, values) ==
    IF i > Len(fields) THEN {values}
    ELSE IF ~IsFixed(fields[i]) THEN SuppliedFrom(fields, i + 1, values)
    ELSE SuppliedFrom(fields, i + 1, values)
         \cup { (fields[i].name :> v) @@ m :
                  v \in OverrideValues,
                  m \in SuppliedFrom(fields, i + 1, values) }

\* 64-bit values around every byte boundary: one digit a, the others b.
I64Wide ==
    {x \in {I64(s, [i \in 1..8 |-> IF i = k THEN a ELSE b]) :
                s \in BOOLEAN, k \in {1, 2, 8}, a \in {0, 1, 127, 128, 255},
                b \in {0, 255}} : InI64Range(x)}

\* Key lengths a caller may get wrong.
KeyLengths == {0, 31, 32, 33, 64}

\* The indexes of the fields of a kind.
FieldsOfKind(schema, kinds) ==
    {i \in DOMAIN schema.fields : schema.fields[i].type.kind \in kinds}

\* What the caller hands to encode: its mapping, and in mode "override" also
\* values under the names of fixed-value fields; in mode "numbers" its
\* mapping with another value in an I64 field; in mode "keys" with a key of
\* any length in a PublicKey field; in mode "missing" with any of its names
\* left out.
Supplied(schema, values, mode) ==
    CASE mode = "override" -> SuppliedFrom(schema.fields, 1, values) \ {values}
      [] mode = "numbers" ->
            {[values EXCEPT ![schema.fields[i].name] = x] :
                i \in {j \in FieldsOfKind(schema, {"numberTypeNode"}) :
                          schema.fields[j].type.format = "i64"},
                x \in I64Wide}
      [] mode = "keys" ->
            {[values EXCEPT ![schema.fields[i].name] = [j \in 1..n |-> 7]] :
                i \in FieldsOfKind(schema, {"publicKeyTypeNode"}),
                n \in KeyLengths}
      [] mode = "missing" ->
            {[n \in D |-> values[n]] : D \in SUBSET DOMAIN values}
      [] OTHER -> {values}

\* Every run of one to n bytes drawn from a set.
RECURSIVE Runs(_, _)
Runs(n, bytes) ==
    IF n = 0 THEN {}
    ELSE {<<b>> : b \in bytes}
         \cup {r \o <<b>> : r \in Runs(n - 1, bytes), b \in bytes}

(***************************************************************************)
(* State.                                                                  *)
(***************************************************************************)
VARIABLES
    rev,      \* the schema revision in use
    fam,      \* the family of the schema the caller encodes with
    schema,   \* the name of that schema
    mode,     \* how the value mapping was drawn
    vals,     \* the caller's value mapping
    pc,       \* position of the exchange
    enc,      \* result of encode
    buf,      \* the buffer in flight
    tamper,   \* what happened to the buffer after encode
    target,   \* the name of the schema decode was asked to use
    dec,      \* result of decode
    disp,     \* result of dispatch, with the family asked for
    reenc,    \* result of encoding the decoded mapping again
    given,    \* the mapping handed to encode: vals, plus any values the
              \* caller supplies under the names of fixed-value fields
    rrev,     \* the schema revision the receiver decodes with
    cursor,   \* bytes consumed so far by a decode in progress
    idx,      \* index of the field a decode in progress reads next
    acc,      \* values read so far by a decode in progress
    files,    \* the TypeScript client directory: content of each path
    before,   \* that directory as it was when the script started
    preserved,\* preservedFiles: the file names copied, in insertion order
    spc,      \* position of the generation script
    disturbed,\* number of files written by others since the copies were made
    programs, \* context.programs: the registered programs, newest first
    cluster,  \* the cluster the context is connected to
    bpc,      \* position of the client that uses the generated binding
    asked,    \* the clusterFilter of the last request
    answer    \* result of the last request

\* The state of a decode in progress.
steps == <<cursor, idx, acc>>

\* The state of the generation script.
script == <<files, before, preserved, spc, disturbed>>

\* The state of the codec exchange.
codec == <<rev, fam, schema, mode, vals, pc, enc, buf, tamper, target, dec, disp, reenc,
           given, rrev, steps>>

\* The state of a client of the generated binding.
binding == <<programs, cluster, bpc, asked, answer>>

vars == <<codec, script, binding>>

NoEnc == [st |-> "none", bytes |-> <<>>, err |-> "none"]

NoDec == [st |-> "none", values |-> EmptyMap, err |-> "none", cursor |-> 0]

NoDisp == [st |-> "none", name |-> "none", err |-> "none", family |-> "none"]

Program == rootOf(rev)

Schema == SchemaNamed(Program, fam, schema)

Target == SchemaNamed(Program, fam, target)

\* The files the generation script keeps copies of.
filesToPreserve == <<"package.json", "tsconfig.json", ".npmignore", "pnpm-lock.yaml", "Cargo.toml">>

Listed == {filesToPreserve[i] : i \in DOMAIN filesToPreserve}

\* A file of the directory that the script does not list.
Unlisted == "README.md"

\* path.join(typescriptClientsDir, filename) and the same with '.temp'.
filePath(filename) == [file |-> filename, temp |-> FALSE]

tempPath(filename) == [file |-> filename, temp |-> TRUE]

Paths == [file : Listed \cup {Unlisted}, temp : BOOLEAN]

\* fs.existsSync
existsSync(fs, p) == fs[p] # "none"

\* No script runs.
ScriptIdle ==
    /\ files = [p \in Paths |-> "none"]
    /\ before = files
    /\ preserved = <<>>
    /\ spc = "idle"
    /\ disturbed = 0

\* No request to the program repository was made.
NoAnswer == [st |-> "none", publicKey |-> "none", err |-> "none"]

\* No client uses the generated binding.
BindingIdle ==
    /\ programs = <<>>
    /\ cluster = "mainnet-beta"
    /\ bpc = "idle"
    /\ asked = "none"
    /\ answer = NoAnswer

Init ==
    /\ rev \in {Revisions[i] : i \in DOMAIN Revisions}
    /\ fam \in Families
    /\ schema \in SchemaNames(Program, fam)
    /\ mode \in {"wide", "sample", "override"}
    /\ vals \in Mappings(Schema, mode)
    /\ given \in Supplied(Schema, vals, mode)
    /\ rrev = rev
    /\ cursor = 0
    /\ idx = 0
    /\ acc = EmptyMap
    /\ ScriptIdle
    /\ BindingIdle
    /\ pc = "start"
    /\ enc = NoEnc
    /\ buf = <<>>
    /\ tamper = "none"
    /\ target = "none"
    /\ dec = NoDec
    /\ disp = NoDisp
    /\ reenc = NoEnc

(***************************************************************************)
(* Operations.                                                             *)
(***************************************************************************)
\* The caller encodes its mapping with its schema.
Encode ==
    /\ pc = "start"
    /\ enc' = encode(Schema, given)
    /\ buf' = enc'.bytes
    /\ pc' = IF enc'.st = "ok" THEN "encoded" ELSE "failed"
    /\ UNCHANGED <<binding, script, rev, fam, schema, mode, vals, given, rrev, steps, tamper, target, dec, disp, reenc>>

\* The buffer is cut to its first k bytes.
Truncate ==
    /\ pc = "encoded"
    /\ mode = "sample"
    /\ \E k \in 0..(Len(buf) - 1) : buf' = SubSeq(buf, 1, k)
    /\ tamper' = "truncate"
    /\ pc' = "wire"
    /\ UNCHANGED <<binding, script, rev, fam, schema, mode, vals, given, rrev, steps, enc, target, dec, disp, reenc>>

\* Extra bytes follow the buffer.
AppendExtra ==
    /\ pc = "encoded"
    /\ mode = "sample"
    /\ \E extra \in Runs(MaxExtra, PokeBytes) : buf' = buf \o extra
    /\ tamper' = "append"
    /\ pc' = "wire"
    /\ UNCHANGED <<binding, script, rev, fam, schema, mode, vals, given, rrev, steps, enc, target, dec, disp, reenc>>

\* One byte of the buffer is replaced.
Poke ==
    /\ pc = "encoded"
    /\ mode = "sample"
    /\ \E i \in DOMAIN buf : \E b \in PokeBytes \ {buf[i]} :
          buf' = [buf EXCEPT ![i] = b]
    /\ tamper' = "poke"
    /\ pc' = "wire"
    /\ UNCHANGED <<binding, script, rev, fam, schema, mode, vals, given, rrev, steps, enc, target, dec, disp, reenc>>

\* The receiver decodes the buffer against a schema of the family.
Decode ==
    /\ pc \in {"encoded", "wire"}
    /\ \E t \in SchemaNames(Program, fam) :
          /\ target' = t
          /\ dec' = decode(SchemaNamed(Program, fam, t), buf)
    /\ pc' = "decoded"
    /\ UNCHANGED <<binding, script, rev, fam, schema, mode, vals, given, rrev, steps, enc, buf, tamper, disp, reenc>>

\* The revisions that follow a revision.
LaterRevisions(r) ==
    {Revisions[j] : j \in {k \in DOMAIN Revisions :
                              \E i \in 1..(k - 1) : Revisions[i] = r}}

\* A receiver built from a later revision decodes the untouched buffer
\* against its own schema of the same name.
DecodeAcross ==
    /\ pc = "encoded"
    /\ \E r \in LaterRevisions(rev) :
          /\ schema \in SchemaNames(rootOf(r), fam)
          /\ rrev' = r
          /\ dec' = decode(SchemaNamed(rootOf(r), fam, schema), buf)
    /\ target' = schema
    /\ pc' = "migrated"
    /\ UNCHANGED <<binding, script, rev, fam, schema, mode, vals, given, steps, enc, buf, tamper, disp, reenc>>

\* A receiver built from a later revision finds the schema of the untouched
\* buffer by its first byte and decodes the buffer against it.
DispatchAcross ==
    /\ pc = "encoded"
    /\ \E r \in LaterRevisions(rev) :
          LET d == dispatch(rootOf(r), fam, buf)
          IN  /\ rrev' = r
              /\ disp' = [d EXCEPT !.family = fam]
              /\ target' = d.name
              /\ dec' = IF d.st = "ok"
                           THEN decode(SchemaNamed(rootOf(r), fam, d.name), buf)
                           ELSE NoDec
    /\ pc' = "routed"
    /\ UNCHANGED <<binding, script, rev, fam, schema, mode, vals, given, steps, enc, buf, tamper, reenc>>

\* The receiver asks which schema of a family the buffer belongs to.
Dispatch ==
    /\ pc \in {"encoded", "wire"}
    /\ \E f \in Families :
          disp' = [dispatch(Program, f, buf) EXCEPT !.family = f]
    /\ pc' = "dispatched"
    /\ UNCHANGED <<binding, script, rev, fam, schema, mode, vals, given, rrev, steps, enc, buf, tamper, target, dec, reenc>>

\* The receiver encodes what it decoded with the schema it decoded with.
Reencode ==
    /\ pc = "decoded"
    /\ dec.st = "ok"
    /\ reenc' = encode(Target, dec.values)
    /\ pc' = "reencoded"
    /\ UNCHANGED <<binding, script, rev, fam, schema, mode, vals, given, rrev, steps, enc, buf, tamper, target, dec, disp>>

Next ==
    \/ Encode
    \/ Truncate
    \/ AppendExtra
    \/ Poke
    \/ Decode
    \/ DecodeAcross
    \/ DispatchAcross
    \/ Dispatch
    \/ Reencode

Spec == Init /\ [][Next]_vars

(***************************************************************************)
(* Callers with unusual inputs: 64-bit values around the byte boundaries,  *)
(* keys of a wrong length, mappings that leave names out.                  *)
(***************************************************************************)
InitInputs ==
    /\ rev \in {Revisions[i] : i \in DOMAIN Revisions}
    /\ fam \in Families
    /\ schema \in SchemaNames(Program, fam)
    /\ mode \in {"numbers", "keys", "missing"}
    /\ vals \in Mappings(Schema, mode)
    /\ given \in Supplied(Schema, vals, mode)
    /\ rrev = rev
    /\ cursor = 0
    /\ idx = 0
    /\ acc = EmptyMap
    /\ ScriptIdle
    /\ BindingIdle
    /\ pc = "start"
    /\ enc = NoEnc
    /\ buf = <<>>
    /\ tamper = "none"
    /\ target = "none"
    /\ dec = NoDec
    /\ disp = NoDisp
    /\ reenc = NoEnc

\* The receiver decodes the buffer against the schema it was built with.
DecodeSame ==
    /\ pc = "encoded"
    /\ target' = schema
    /\ dec' = decode(Schema, buf)
    /\ pc' = "decoded"
    /\ UNCHANGED <<binding, script, rev, fam, schema, mode, vals, given, rrev, steps, enc, buf, tamper, disp, reenc>>

NextInputs ==
    \/ Encode
    \/ DecodeSame
    \/ Reencode

SpecInputs == InitInputs /\ [][NextInputs]_vars

(***************************************************************************)
(* An optional field.  No schema of the program declares one in its data   *)
(* (the optional authority of createRecord is an account, not an           *)
(* argument), so the Option rule is exercised on a schema with a single    *)
(* optional public key.                                                    *)
(***************************************************************************)
OptionalAuthority ==
    [name |-> "optionalAuthority",
     fields |-> <<structFieldTypeNode("authority", optionTypeNode(publicKeyTypeNode))>>]

OptionValues == {Absent, Present(KeyOf(0)), Present(KeyOf(17)), Present(SampleKey(0))}

InitOption ==
    /\ rev = "latest"
    /\ fam = "instruction"
    /\ schema = OptionalAuthority.name
    /\ mode = "sample"
    /\ vals \in {("authority" :> o) : o \in OptionValues}
    /\ given = vals
    /\ rrev = rev
    /\ cursor = 0
    /\ idx = 0
    /\ acc = EmptyMap
    /\ ScriptIdle
    /\ BindingIdle
    /\ pc = "start"
    /\ enc = NoEnc
    /\ buf = <<>>
    /\ tamper = "none"
    /\ target = "none"
    /\ dec = NoDec
    /\ disp = NoDisp
    /\ reenc = NoEnc

EncodeOptional ==
    /\ pc = "start"
    /\ enc' = encode(OptionalAuthority, given)
    /\ buf' = enc'.bytes
    /\ pc' = IF enc'.st = "ok" THEN "encoded" ELSE "failed"
    /\ UNCHANGED <<binding, script, rev, fam, schema, mode, vals, given, rrev, steps, tamper, target, dec, disp, reenc>>

DecodeOptional ==
    /\ pc \in {"encoded", "wire"}
    /\ target' = OptionalAuthority.name
    /\ dec' = decode(OptionalAuthority, buf)
    /\ pc' = "decoded"
    /\ UNCHANGED <<binding, script, rev, fam, schema, mode, vals, given, rrev, steps, enc, buf, tamper, disp, reenc>>

ReencodeOptional ==
    /\ pc = "decoded"
    /\ dec.st = "ok"
    /\ reenc' = encode(OptionalAuthority, dec.values)
    /\ pc' = "reencoded"
    /\ UNCHANGED <<binding, script, rev, fam, schema, mode, vals, given, rrev, steps, enc, buf, tamper, target, dec, disp>>

NextOption ==
    \/ EncodeOptional
    \/ Truncate
    \/ AppendExtra
    \/ Poke
    \/ DecodeOptional
    \/ ReencodeOptional

SpecOption == InitOption /\ [][NextOption]_vars

(***************************************************************************)
(* Decode, field by field.  The receiver of an account buffer of the       *)
(* latest revision reads one field per step.                               *)
(***************************************************************************)
InitSteps ==
    /\ rev = "latest"
    /\ fam = "account"
    /\ schema \in SchemaNames(Program, fam)
    /\ mode = "sample"
    /\ vals \in Mappings(Schema, mode)
    /\ given = vals
    /\ rrev = rev
    /\ cursor = 0
    /\ idx = 0
    /\ acc = EmptyMap
    /\ ScriptIdle
    /\ BindingIdle
    /\ pc = "start"
    /\ enc = NoEnc
    /\ buf = <<>>
    /\ tamper = "none"
    /\ target = "none"
    /\ dec = NoDec
    /\ disp = NoDisp
    /\ reenc = NoEnc

\* Decode starts against a schema of the family, cursor at 0.
ReadBegin ==
    /\ pc \in {"encoded", "wire"}
    /\ \E t \in SchemaNames(Program, fam) : target' = t
    /\ cursor' = 0
    /\ idx' = 1
    /\ acc' = EmptyMap
    /\ pc' = "reading"
    /\ UNCHANGED <<binding, script, rev, fam, schema, mode, vals, given, rrev, enc, buf, tamper, dec, disp, reenc>>

\* Decode reads the next field at the cursor: it stops with the field's
\* error, or with DiscriminatorMismatchError when a fixed-value field reads
\* back as another value, or moves the cursor past the field.
ReadField ==
    /\ pc = "reading"
    /\ idx <= Len(Target.fields)
    /\ LET f == Target.fields[idx]
           r == DecodeValue(f.type, buf, cursor)
       IN  IF r.st = "err"
              THEN /\ dec' = DecErr(r.err, cursor)
                   /\ pc' = "decoded"
                   /\ UNCHANGED steps
           ELSE IF IsFixed(f) /\ r.value # f.defaultValue
              THEN /\ dec' = DecErr("DiscriminatorMismatchError", cursor)
                   /\ pc' = "decoded"
                   /\ UNCHANGED steps
           ELSE /\ cursor' = r.next
                /\ idx' = idx + 1
                /\ acc' = acc @@ (f.name :> r.value)
                /\ UNCHANGED <<pc, dec>>
    /\ UNCHANGED <<binding, script, rev, fam, schema, mode, vals, given, rrev, enc, buf, tamper, target, disp, reenc>>

\* After the last field the cursor must be at the end of the buffer.
ReadEnd ==
    /\ pc = "reading"
    /\ idx > Len(Target.fields)
    /\ dec' = IF cursor = Len(buf) THEN DecOk(acc, cursor)
              ELSE DecErr("TrailingDataError", cursor)
    /\ pc' = "decoded"
    /\ UNCHANGED <<binding, script, rev, fam, schema, mode, vals, given, rrev, steps, enc, buf, tamper, target, disp, reenc>>

NextSteps ==
    \/ Encode
    \/ Truncate
    \/ AppendExtra
    \/ Poke
    \/ ReadBegin
    \/ ReadField
    \/ ReadEnd

SpecSteps == InitSteps /\ [][NextSteps]_vars

(***************************************************************************)
(* The generation script and its config-file copies.                       *)
(***************************************************************************)
\* Most files written by others between the copies and their restoration.
MaxDisturb == 1

\* No codec exchange runs.
CodecIdle ==
    /\ rev = "latest"
    /\ fam = "account"
    /\ schema = "class"
    /\ mode = "sample"
    /\ vals = EmptyMap
    /\ given = EmptyMap
    /\ rrev = rev
    /\ cursor = 0
    /\ idx = 0
    /\ acc = EmptyMap
    /\ pc = "idle"
    /\ enc = NoEnc
    /\ buf = <<>>
    /\ tamper = "none"
    /\ target = "none"
    /\ dec = NoDec
    /\ disp = NoDisp
    /\ reenc = NoEnc

\* The directory before the script runs: any of the listed files exist,
\* temp copies of an earlier run may lie about, the unlisted file exists.
InitScript ==
    /\ CodecIdle
    /\ BindingIdle
    /\ \E present \in SUBSET Listed :
       \E stale \in SUBSET {"package.json", "Cargo.toml"} :
          files = [p \in Paths |->
                     IF p.temp THEN IF p.file \in stale THEN "stale" ELSE "none"
                     ELSE IF p.file \in present \cup {Unlisted} THEN "orig"
                     ELSE "none"]
    /\ before = files
    /\ preserved = <<>>
    /\ spc = "start"
    /\ disturbed = 0

\* preserveConfigFiles(): every listed file that exists is copied to its
\* temp path and entered in preservedFiles.
preserveConfigFiles ==
    /\ spc = "start"
    /\ files' = [p \in Paths |->
                   IF p.temp /\ p.file \in Listed /\ existsSync(files, filePath(p.file))
                      THEN files[filePath(p.file)]
                      ELSE files[p]]
    /\ preserved' = SelectSeq(filesToPreserve,
                              LAMBDA f : existsSync(files, filePath(f)))
    /\ spc' = "preserved"
    /\ UNCHANGED <<binding, codec, before, disturbed>>

\* What a renderer may do to the listed files: the renderers are not part of
\* the program, so each file may be kept, rewritten or removed.
Rendered(fs, effect) ==
    [p \in Paths |->
        IF p.temp \/ p.file \notin Listed \/ effect[p.file] = "keep" THEN fs[p]
        ELSE IF effect[p.file] = "write" THEN "gen"
        ELSE "none"]

\* codama.accept(renderJavaScriptUmiVisitor('sdk/ts/src', ...)), which
\* renders into the TypeScript client directory.
RenderJs ==
    /\ spc = "preserved"
    /\ \E effect \in [Listed -> {"keep", "write", "delete"}] :
          files' = Rendered(files, effect)
    /\ spc' = "renderedJs"
    /\ UNCHANGED <<binding, codec, before, preserved, disturbed>>

\* codama.accept(renderRustVisitor('sdk/rust/src/client', ...)), which
\* renders into the Rust client directory; the script ends after it.
RenderRust ==
    /\ spc = "renderedJs"
    /\ spc' = "done"
    /\ UNCHANGED <<binding, codec, files, before, preserved, disturbed>>

NextScript ==
    \/ preserveConfigFiles
    \/ RenderJs
    \/ RenderRust

SpecScript == InitScript /\ [][NextScript]_vars

\* Someone else writes or removes a file of the directory that is not a
\* temp copy.
Disturb ==
    /\ spc = "preserved"
    /\ disturbed < MaxDisturb
    /\ \E f \in Listed \cup {Unlisted} : \E c \in {"gen", "none"} \ {files[filePath(f)]} :
          files' = [files EXCEPT ![filePath(f)] = c]
    /\ disturbed' = disturbed + 1
    /\ UNCHANGED <<binding, codec, before, preserved, spc>>

\* restore() that copies back and leaves the temp copy in place.
restore_keepTemp ==
    /\ spc \in {"preserved", "restored"}
    /\ files' = [p \in Paths |->
                   IF /\ \E i \in DOMAIN preserved : preserved[i] = p.file
                      /\ existsSync(files, tempPath(p.file))
                      /\ ~p.temp
                      THEN files[tempPath(p.file)]
                      ELSE files[p]]
    /\ spc' = IF spc = "preserved" THEN "restored" ELSE "restoredTwice"
    /\ UNCHANGED <<binding, codec, before, preserved, disturbed>>

\* restore(): every entry of preservedFiles whose temp copy exists is copied
\* back and its temp copy removed.  A caller may call it a second time.
restore ==
    /\ spc \in {"preserved", "restored"}
    /\ files' = [p \in Paths |->
                   IF /\ \E i \in DOMAIN preserved : preserved[i] = p.file
                      /\ existsSync(files, tempPath(p.file))
                      THEN IF p.temp THEN "none" ELSE files[tempPath(p.file)]
                      ELSE files[p]]
    /\ spc' = IF spc = "preserved" THEN "restored" ELSE "restoredTwice"
    /\ UNCHANGED <<binding, codec, before, preserved, disturbed>>

NextPreserve ==
    \/ preserveConfigFiles
    \/ Disturb
    \/ restore

SpecPreserve == InitScript /\ [][NextPreserve]_vars

(***************************************************************************)
(* The generated TypeScript binding of the program and the program         *)
(* repository of the context it is used with.  A program descriptor is a   *)
(* name, a public key and isOnCluster, the clusters it reports to be on.   *)
(***************************************************************************)
\* Most programs registered in the context.
MaxPrograms == 2

Clusters == {"mainnet-beta", "devnet", "testnet", "localnet", "custom"}

\* ClusterFilter: a cluster, 'all', 'current', or left out.
ClusterFilters == Clusters \cup {"all", "current", "undefined"}

SOLANA_RECORD_SERVICE_PROGRAM_ID == "srsUi2TVUUCyGcZdopxJauk8ZBzgAaHHZCVUhm5ifPa"

createSolanaRecordServiceProgram ==
    [name |-> "solanaRecordService",
     publicKey |-> SOLANA_RECORD_SERVICE_PROGRAM_ID,
     isOnCluster |-> [c \in Clusters |-> TRUE]]

\* Other programs a context may hold: a deployment of the record service
\* under another address that is on devnet only, and the system program.
DevnetFork ==
    [name |-> "solanaRecordService",
     publicKey |-> "srsDevnetFork1111111111111111111111111111111",
     isOnCluster |-> [c \in Clusters |-> c = "devnet"]]

SystemProgram ==
    [name |-> "splSystem",
     publicKey |-> "11111111111111111111111111111111",
     isOnCluster |-> [c \in Clusters |-> TRUE]]

Registrable == {createSolanaRecordServiceProgram, DevnetFork, SystemProgram}

\* The programs of the context that a cluster filter lets through, newest
\* first: 'all' lets every program through, 'current' and a filter left
\* out stand for the cluster of the context.
ProgramsOn(context, clusterFilter) ==
    LET c == IF clusterFilter \in {"current", "undefined"}
                THEN context.cluster ELSE clusterFilter
    IN  IF clusterFilter = "all" THEN context.programs
        ELSE SelectSeq(context.programs, LAMBDA p : p.isOnCluster[c])

\* context.programs.getPublicKey(name, fallback, clusterFilter): the key of
\* the newest program of that name the filter lets through, else the
\* fallback, else ProgramNotRecognizedError.
getPublicKey(context, name, fallback, clusterFilter) ==
    LET named == SelectSeq(ProgramsOn(context, clusterFilter),
                           LAMBDA p : p.name = name)
    IN  IF named # <<>>
           THEN [st |-> "ok", publicKey |-> named[1].publicKey, err |-> "none"]
        ELSE IF fallback # "undefined"
           THEN [st |-> "ok", publicKey |-> fallback, err |-> "none"]
        ELSE [st |-> "err", publicKey |-> "none", err |-> "ProgramNotRecognizedError"]

\* The request made without a fallback.
getSolanaRecordServiceProgramId_noFallback(context, clusterFilter) ==
    getPublicKey(context, "solanaRecordService", "undefined", clusterFilter)

getSolanaRecordServiceProgramId(context, clusterFilter) ==
    getPublicKey(context, "solanaRecordService",
                 SOLANA_RECORD_SERVICE_PROGRAM_ID, clusterFilter)

Context == [programs |-> programs, cluster |-> cluster]

\* A client starts with a context on some cluster and no program.
InitBinding ==
    /\ CodecIdle
    /\ ScriptIdle
    /\ programs = <<>>
    /\ cluster \in Clusters
    /\ bpc = "start"
    /\ asked = "none"
    /\ answer = NoAnswer

\* context.programs.add(program): the program goes in front of the others.
Add ==
    /\ bpc = "start"
    /\ Len(programs) < MaxPrograms
    /\ \E p \in Registrable : programs' = <<p>> \o programs
    /\ UNCHANGED <<codec, script, cluster, bpc, asked, answer>>

\* The client asks for the program address.
GetProgramId ==
    /\ bpc = "start"
    /\ \E clusterFilter \in ClusterFilters :
          /\ asked' = clusterFilter
          /\ answer' = getSolanaRecordServiceProgramId(Context, clusterFilter)
    /\ bpc' = "asked"
    /\ UNCHANGED <<codec, script, programs, cluster>>

NextBinding ==
    \/ Add
    \/ GetProgramId

SpecBinding == InitBinding /\ [][NextBinding]_vars

(***************************************************************************)
(* Properties.                                                             *)
(***************************************************************************)
TypeOK ==
    /\ pc \in {"start", "encoded", "failed", "wire", "reading", "decoded",
              "migrated", "routed", "dispatched", "reencoded"}
    /\ \A i \in DOMAIN buf : buf[i] \in Byte

BoolByte(b) == IF b THEN 1 ELSE 0

\* The last field of a schema has a fixed or prefixed width.
FixedLast(s) == s.fields[Len(s.fields)].type.kind # "stringTypeNode"

\* The discriminators registered for a family.
Registered(program, family) ==
    {DiscriminatorOf(SchemasOf(program, family)[i]) :
        i \in DOMAIN SchemasOf(program, family)}

\* C1 -- Round-trip law: decoding an untouched encoding against the schema
\* it was encoded with succeeds and returns the caller's mapping on every
\* non-fixed field and the schema constant on every fixed-value field.
C1_RoundTrip ==
    (pc = "decoded" /\ tamper = "none" /\ target = schema)
        => /\ dec.st = "ok"
           /\ dec.values = Materialize(Schema, vals)
           /\ \A n \in DOMAIN vals : dec.values[n] = vals[n]
           /\ \A i \in DOMAIN Schema.fields :
                 IsFixed(Schema.fields[i]) =>
                    dec.values[Schema.fields[i].name] = Schema.fields[i].defaultValue

\* C1 witness: a record account with a 255-byte name and a non-empty final
\* string went through encode and decode.
C1_Witness ==
    (pc = "decoded" /\ tamper = "none" /\ target = schema /\ schema = "record"
      /\ vals.name = StrLong255 /\ vals.data = StrTest /\ dec.st = "ok")

\* C2 -- Canonical encoding: whenever decode succeeds on a buffer, whatever
\* happened to the buffer before, encoding the decoded mapping with the same
\* schema gives back the buffer byte for byte.
C2_Canonical ==
    pc = "reencoded" => reenc.st = "ok" /\ reenc.bytes = buf

\* C2 witness: a buffer with one byte replaced decoded successfully and was
\* encoded again.
C2_Witness ==
    (pc = "reencoded" /\ tamper = "poke" /\ fam = "account" /\ buf # enc.bytes)

\* C3 -- Discriminator enforcement: decoding a buffer whose first byte is 2
\* against the class account schema fails with DiscriminatorMismatchError
\* whatever follows; account dispatch on a first byte of 2 selects record
\* (in every revision that declares the record account) and on a first byte
\* of 1 selects class.
C3_DiscriminatorEnforcement ==
    /\ (pc = "decoded" /\ fam = "account" /\ target = "class"
        /\ buf # <<>> /\ buf[1] = 2)
          => dec.st = "err" /\ dec.err = "DiscriminatorMismatchError"
    /\ (pc = "dispatched" /\ disp.family = "account" /\ buf # <<>> /\ buf[1] = 2
        /\ "record" \in SchemaNames(Program, "account"))
          => disp.st = "ok" /\ disp.name = "record"
    /\ (pc = "dispatched" /\ disp.family = "account" /\ buf # <<>> /\ buf[1] = 1)
          => disp.st = "ok" /\ disp.name = "class"

\* C3 witness: a record encoding with a byte replaced past the discriminator
\* was decoded against the class schema.
C3_Witness ==
    (pc = "decoded" /\ fam = "account" /\ schema = "record" /\ target = "class"
      /\ tamper = "poke" /\ buf[1] = 2 /\ rev = "latest")

\* C4 (as stated) -- the record account is discriminator 2, class, owner,
\* isFrozen, expiry, name, data with nothing in between: owner at byte
\* offset 33, fixed-width part 75 bytes.
C4_BaselineRecordLayout ==
    (pc = "encoded" /\ fam = "account" /\ schema = "record")
        => /\ buf = <<2>> \o vals.class \o vals.owner \o <<BoolByte(vals.isFrozen)>>
                    \o I64ToBytes(vals.expiry)
                    \o <<Len(Utf8Encode(vals.name))>> \o Utf8Encode(vals.name)
                    \o Utf8Encode(vals.data)
           /\ Slice(buf, 33, 32) = vals.owner
           /\ Len(buf) = 75 + Len(Utf8Encode(vals.name)) + Len(Utf8Encode(vals.data))

\* C4 (amended) -- the record account carries one more byte in every
\* revision.  Latest: discriminator 2, class, ownerType (always 0), owner,
\* isFrozen, expiry, name, data; owner at byte offset 34.  First and
\* delegate revisions: discriminator 2, class, owner, isFrozen,
\* hasAuthorityExtension, expiry, name, data; owner at byte offset 33.  In
\* both the fixed-width part is 76 bytes, expiry is the 8 bytes at offset
\* 67 and the name length byte is at offset 75.
C4_RecordLayout ==
    (pc = "encoded" /\ fam = "account" /\ schema = "record")
        => /\ buf = <<2>> \o vals.class
                    \o (IF rev = "latest" THEN <<0>> ELSE <<>>)
                    \o vals.owner \o <<BoolByte(vals.isFrozen)>>
                    \o (IF rev = "latest" THEN <<>>
                        ELSE <<BoolByte(vals.hasAuthorityExtension)>>)
                    \o I64ToBytes(vals.expiry)
                    \o <<Len(Utf8Encode(vals.name))>> \o Utf8Encode(vals.name)
                    \o Utf8Encode(vals.data)
           /\ Slice(buf, IF rev = "latest" THEN 34 ELSE 33, 32) = vals.owner
           /\ vals.expiry = MinusOne => Slice(buf, 67, 8) = [i \in 1..8 |-> 255]
           /\ buf[76] = Len(Utf8Encode(vals.name))
           /\ Len(buf) = 76 + Len(Utf8Encode(vals.name)) + Len(Utf8Encode(vals.data))

\* C4 witness: a latest-revision record whose class and owner differ was
\* encoded.
C4_Witness ==
    (pc = "encoded" /\ fam = "account" /\ schema = "record" /\ rev = "latest"
      /\ vals.class # vals.owner /\ vals.expiry = MinusOne /\ vals.name # <<>>)

\* C5 -- Within the revision in use no two account schemas share a
\* discriminator and no two instruction schemas do, so the schema dispatch
\* selects is the only one of its family registered under the first byte.
C5_UniqueDiscriminators ==
    /\ \A f \in Families : \A i, j \in DOMAIN SchemasOf(Program, f) :
          i # j => DiscriminatorOf(SchemasOf(Program, f)[i])
                   # DiscriminatorOf(SchemasOf(Program, f)[j])
    /\ (pc = "dispatched" /\ disp.st = "ok")
          => \A i \in DOMAIN SchemasOf(Program, disp.family) :
                DiscriminatorOf(SchemasOf(Program, disp.family)[i]) = buf[1]
                   => SchemasOf(Program, disp.family)[i].name = disp.name

\* C5 witness: dispatch selected the last instruction of the delegate
\* revision.
C5_Witness ==
    (pc = "dispatched" /\ disp.st = "ok" /\ rev = "delegate"
      /\ disp.family = "instruction" /\ disp.name = "deleteRecordAuthorityDelegate")

\* C6 -- Instruction discriminators are dense from 0 in declaration order:
\* the i-th declared instruction of the revision in use has discriminator
\* i - 1, and an encoded instruction starts with that byte.
C6_DenseInstructionDiscriminators ==
    /\ \A i \in DOMAIN Program.instructions :
          DiscriminatorOf(Program.instructions[i]) = i - 1
    /\ (pc = "encoded" /\ fam = "instruction")
          => \E i \in DOMAIN Program.instructions :
                Program.instructions[i].name = schema /\ buf[1] = i - 1

\* C6 witness: the thirteenth instruction of the latest revision was
\* encoded.
C6_Witness ==
    (pc = "encoded" /\ fam = "instruction" /\ rev = "latest"
      /\ schema = "burnTokenizedRecord" /\ buf[1] = 12)

\* C7 -- Dispatch on a first byte that is not registered for the requested
\* family fails with UnknownDiscriminatorError and names no schema; on a
\* registered byte it names the schema registered under it.  The first
\* revision registers accounts 1, 2 and instructions 0..7.
C7_UnknownDiscriminator ==
    /\ (pc = "dispatched" /\ buf # <<>> /\ buf[1] \notin Registered(Program, disp.family))
          => disp.st = "err" /\ disp.err = "UnknownDiscriminatorError"
             /\ disp.name = "none"
    /\ (pc = "dispatched" /\ buf # <<>> /\ buf[1] \in Registered(Program, disp.family))
          => /\ disp.st = "ok"
             /\ disp.name \in SchemaNames(Program, disp.family)
             /\ DiscriminatorOf(SchemaNamed(Program, disp.family, disp.name)) = buf[1]
    /\ rev = "first"
          => /\ Registered(Program, "account") = {1, 2}
             /\ Registered(Program, "instruction") = 0..7

\* C7 witness: dispatch refused an instruction buffer of the first revision
\* whose first byte had been replaced by 255.
C7_Witness ==
    (pc = "dispatched" /\ rev = "first" /\ disp.family = "instruction"
      /\ fam = "instruction" /\ buf # <<>> /\ buf[1] = 255 /\ disp.st = "err")

\* C8 -- Length-prefix boundary: a name of n UTF-8 bytes encodes for every
\* n up to 255 as the length byte n followed by exactly those n bytes (then
\* the final string); with 256 bytes or more encode fails with
\* EncodingLimitError and produces nothing.
C8_LengthPrefixBoundary ==
    (pc \in {"encoded", "failed"} /\ "name" \in DOMAIN vals)
        => LET nameBytes == Utf8Encode(vals.name)
               n == Len(nameBytes)
               last == Schema.fields[Len(Schema.fields)].name
               tail == <<n>> \o nameBytes \o Utf8Encode(vals[last])
           IN  /\ n <= 255 =>
                    /\ enc.st = "ok"
                    /\ Len(enc.bytes) >= Len(tail)
                    /\ SubSeq(enc.bytes, Len(enc.bytes) - Len(tail) + 1,
                              Len(enc.bytes)) = tail
                    /\ n = 255 => enc.bytes[Len(enc.bytes) - Len(tail) + 1] = 255
               /\ n >= 256 =>
                    /\ pc = "failed" /\ enc.st = "err"
                    /\ enc.err = "EncodingLimitError"
                    /\ enc.bytes = <<>> /\ buf = <<>>

\* C8 witness: a name of 128 characters and 256 bytes was refused.
C8_Witness ==
    (pc = "failed" /\ "name" \in DOMAIN vals /\ vals.name = StrLong256
      /\ Len(vals.name) <= 255 /\ enc.err = "EncodingLimitError")

\* C9 (as stated) -- any buffer that starts with discriminator 2 and is
\* shorter than the fixed-width part of the record layout fails against the
\* record schema with TruncatedInputError.
C9_AnyShortBufferTruncated ==
    (pc = "decoded" /\ fam = "account" /\ target = "record"
     /\ buf # <<>> /\ buf[1] = 2 /\ Len(buf) < 76)
        => dec.st = "err" /\ dec.err = "TruncatedInputError"

\* C9 (amended) -- a buffer that starts with discriminator 2 and is shorter
\* than the 76-byte fixed-width part never decodes against the record
\* schema: decode fails and returns no value mapping.  The error is
\* TruncatedInputError when the buffer is a cut of a valid record encoding;
\* otherwise an invalid field before the cut is reported first.  A valid
\* record encoding whose name length byte is replaced by more than the
\* bytes that follow fails with TruncatedInputError.
C9_Truncation ==
    /\ (pc = "decoded" /\ fam = "account" /\ target = "record"
        /\ buf # <<>> /\ buf[1] = 2 /\ Len(buf) < 76)
          => /\ dec.st = "err" /\ dec.values = EmptyMap
             /\ dec.err \in {"TruncatedInputError", "DiscriminatorMismatchError",
                             "TypeMismatchError"}
             /\ (schema = "record" /\ tamper = "truncate")
                   => dec.err = "TruncatedInputError"
    /\ (pc = "decoded" /\ fam = "account" /\ target = "record" /\ schema = "record"
        /\ tamper = "poke" /\ Len(buf) >= 76 /\ buf[76] # enc.bytes[76]
        /\ buf[76] > Len(buf) - 76)
          => dec.st = "err" /\ dec.err = "TruncatedInputError"
             /\ dec.values = EmptyMap

\* C9 witness: a record encoding cut to 40 bytes was decoded against the
\* record schema.
C9_Witness ==
    (pc = "decoded" /\ fam = "account" /\ target = "record" /\ schema = "record"
      /\ tamper = "truncate" /\ Len(buf) = 40 /\ dec.err = "TruncatedInputError")

\* C10 -- Trailing data: a valid encoding under a schema whose last field
\* has a fixed width, with one or more bytes appended, fails against that
\* schema with TrailingDataError.  freezeClass, transferRecord, deleteRecord
\* and freezeRecord are such schemas; deleteRecord encodes to the single
\* byte 06 and every longer buffer starting with 06 is rejected.
C10_TrailingData ==
    /\ (pc = "decoded" /\ tamper = "append" /\ target = schema /\ FixedLast(Schema))
          => dec.st = "err" /\ dec.err = "TrailingDataError"
    /\ \A i \in DOMAIN Program.instructions :
          Program.instructions[i].name
              \in {"freezeClass", "transferRecord", "deleteRecord", "freezeRecord"}
             => FixedLast(Program.instructions[i])
    /\ (pc = "encoded" /\ fam = "instruction" /\ schema = "deleteRecord")
          => buf = <<6>>
    /\ (pc = "decoded" /\ fam = "instruction" /\ target = "deleteRecord"
        /\ Len(buf) > 1 /\ buf[1] = 6)
          => dec.st = "err" /\ dec.err = "TrailingDataError"

\* C10 witness: deleteRecord's byte 06 followed by two extra bytes was
\* decoded against deleteRecord.
C10_Witness ==
    (pc = "decoded" /\ tamper = "append" /\ schema = "deleteRecord"
      /\ target = "deleteRecord" /\ Len(buf) = 3 /\ dec.err = "TrailingDataError")

\* The arguments the test 'Create a new class account' passes to createClass.
ExampleCreateClass ==
    ("isPermissioned" :> FALSE) @@ ("isFrozen" :> FALSE)
        @@ ("name" :> StrTwitter) @@ ("metadata" :> StrTest)

\* The 15 bytes 00 00 00 07 "twitter" "test".
ExampleBytes15 ==
    <<0, 0, 0, 7, 116, 119, 105, 116, 116, 101, 114, 116, 101, 115, 116>>

\* The 14 bytes 01 00 07 "twitter" "test".
ExampleBytes14 ==
    <<1, 0, 7, 116, 119, 105, 116, 116, 101, 114, 116, 101, 115, 116>>

IsExampleCall(revision) ==
    /\ rev = revision /\ fam = "instruction" /\ schema = "createClass"
    /\ vals = ExampleCreateClass

\* C11 as stated -- End-to-end example: under the earliest createClass schema
\* the example arguments encode to the 14 bytes 01 00 07 74 77 69 74 74 65 72
\* 74 65 73 74.
C11_ExampleIs14Bytes ==
    (IsExampleCall("earliest") /\ pc = "encoded") => buf = ExampleBytes14

\* C11 -- End-to-end example: under the earliest createClass schema (which
\* declares discriminator 0, isPermissioned, isFrozen, name, metadata) the
\* example arguments encode to the 15 bytes 00 00 00 07 74 77 69 74 74 65 72
\* 74 65 73 74, and decoding those bytes against the same schema returns the
\* original mapping.
C11_EarliestExample ==
    IsExampleCall("earliest") =>
        /\ pc = "encoded" => enc.st = "ok" /\ buf = ExampleBytes15
        /\ (pc = "decoded" /\ tamper = "none" /\ target = schema) =>
              /\ buf = ExampleBytes15
              /\ dec.st = "ok"
              /\ \A n \in DOMAIN ExampleCreateClass :
                    dec.values[n] = ExampleCreateClass[n]

\* C11 witness: the example call was encoded and decoded under the earliest
\* revision.
C11_Witness ==
    /\ IsExampleCall("earliest") /\ pc = "decoded" /\ tamper = "none"
    /\ target = schema /\ dec.st = "ok"

\* C12 -- createClass instruction data under the current schema: for every
\* isPermissioned, isFrozen, name of at most 255 bytes and metadata, the data
\* is the byte 00, one byte for isPermissioned, one byte for isFrozen, one
\* length byte, the name bytes and the metadata bytes without a prefix; the
\* example arguments give 00 00 00 07 74 77 69 74 74 65 72 74 65 73 74.
C12_CreateClassData ==
    (rev = "latest" /\ fam = "instruction" /\ schema = "createClass"
       /\ pc = "encoded")
      => /\ Len(Utf8Encode(vals.name)) <= 255
            => /\ enc.st = "ok"
               /\ buf = <<0, BoolByte(vals.isPermissioned),
                          BoolByte(vals.isFrozen), Len(Utf8Encode(vals.name))>>
                          \o Utf8Encode(vals.name) \o Utf8Encode(vals.metadata)
         /\ vals = ExampleCreateClass => buf = ExampleBytes15

\* C12 witness: createClass data was built under the current schema for a
\* permissioned, unfrozen class with a 255-byte name.
C12_Witness ==
    /\ rev = "latest" /\ fam = "instruction" /\ schema = "createClass"
    /\ pc = "encoded" /\ vals.isPermissioned /\ ~vals.isFrozen
    /\ vals.name = StrLong255 /\ enc.st = "ok"

\* Number of bytes of the UTF-8 form of a string of code points.
Utf8Len(str) ==
    Len(str) + Cardinality({i \in DOMAIN str : str[i] >= 128})
             + Cardinality({i \in DOMAIN str : str[i] >= 2048})
             + Cardinality({i \in DOMAIN str : str[i] >= 65536})

\* Width on the wire of a field holding value v: 1 for U8 and Bool, 8 for
\* I64, 32 for PublicKey, 1+n for a size-prefixed string of n bytes, n for
\* the final unprefixed string.
WidthOf(type, v) ==
    CASE type.kind = "booleanTypeNode" -> 1
      [] type.kind = "publicKeyTypeNode" -> 32
      [] type.kind = "numberTypeNode" -> IF type.format = "i64" THEN 8 ELSE 1
      [] type.kind = "sizePrefixTypeNode" -> 1 + Utf8Len(v)
      [] OTHER -> Utf8Len(v)

\* Sum of the widths of fields 1..n of a schema for a full value mapping.
RECURSIVE WidthSum(_, _, _)
WidthSum(fields, n, values) ==
    IF n = 0 THEN 0
    ELSE WidthSum(fields, n - 1, values)
         + WidthOf(fields[n].type, values[fields[n].name])

\* C18 -- Output length: the output of a successful encode is exactly as long
\* as the sum of its field widths in schema order (1 for U8 and Bool, 8 for
\* I64, 32 for PublicKey, 1+n for a size-prefixed string of n bytes, n for
\* the final unprefixed string), so it depends on the inputs only through
\* their string lengths; a class account is 36 + len(name) + len(metadata)
\* bytes.
C18_OutputLength ==
    (pc = "encoded" /\ enc.st = "ok")
      => /\ Len(buf) = WidthSum(Schema.fields, Len(Schema.fields),
                                Materialize(Schema, vals))
         /\ (rev = "latest" /\ fam = "account" /\ schema = "class")
               => Len(buf) = 36 + Utf8Len(vals.name) + Utf8Len(vals.metadata)

\* C18 witness: a class account with a 255-byte name of two-byte characters
\* and a four-byte metadata was encoded, 295 bytes in all.
C18_Witness ==
    /\ pc = "encoded" /\ rev = "latest" /\ fam = "account" /\ schema = "class"
    /\ vals.name = StrLong255 /\ vals.metadata = StrTest /\ Len(buf) = 295

\* Decode reaches field i of a schema with every earlier field read without
\* error: the earlier fields are public keys or fixed-value fields whose
\* byte matches, and the buffer holds the first byte of field i.
ReadsField(fields, i, bytes) ==
    /\ \A j \in 1..(i - 1) :
          fields[j].type.kind = "publicKeyTypeNode" \/ IsFixed(fields[j])
    /\ WidthSum(fields, i - 1, EmptyMap) + 1 <= Len(bytes)
    /\ \A j \in 1..(i - 1) :
          IsFixed(fields[j]) =>
             bytes[WidthSum(fields, j - 1, EmptyMap) + 1] = fields[j].defaultValue

\* C14 -- Fixed-value fields: encode writes the schema constant for every
\* fixed-value field whatever the caller supplies under its name, so the
\* result equals that of the mapping without those values and the first byte
\* is the discriminator the schema is registered under; decode fails with
\* DiscriminatorMismatchError and no values whenever the byte it reads for a
\* fixed-value field differs from the constant.
C14_FixedValue ==
    /\ pc = "encoded"
         => /\ enc = encode(Schema, vals)
            /\ buf[1] = DiscriminatorOf(Schema)
            /\ \A i \in DOMAIN Schema.fields :
                  IsFixed(Schema.fields[i]) =>
                     buf[WidthSum(Schema.fields, i - 1, Materialize(Schema, vals)) + 1]
                        = Schema.fields[i].defaultValue
    /\ pc = "decoded"
         => \A i \in DOMAIN Target.fields :
               (/\ IsFixed(Target.fields[i])
                /\ ReadsField(Target.fields, i, buf)
                /\ buf[WidthSum(Target.fields, i - 1, EmptyMap) + 1]
                      # Target.fields[i].defaultValue)
                 => /\ dec.st = "err"
                    /\ dec.err = "DiscriminatorMismatchError"
                    /\ dec.values = EmptyMap

\* C14 witness: a caller supplied 255 as discriminator and as ownerType of a
\* record; the buffer was then decoded against class, whose constant the
\* first byte does not match.
C14_Witness ==
    /\ mode = "override" /\ rev = "latest" /\ schema = "record"
    /\ "discriminator" \in DOMAIN given /\ given.discriminator = 255
    /\ "ownerType" \in DOMAIN given /\ given.ownerType = 255
    /\ pc = "decoded" /\ target = "class" /\ buf[1] = 2 /\ buf[34] = 0
    /\ dec.err = "DiscriminatorMismatchError"

\* C17 -- ownerType of the latest record is a fixed-value field with constant
\* 0: encode writes 0 at byte offset 33 whatever the caller supplies, and
\* decoding a record buffer whose byte at offset 33 is not 0 fails and
\* returns no values.
C17_OwnerTypeFixed ==
    (rev = "latest" /\ fam = "account")
      => /\ (pc = "encoded" /\ schema = "record") => buf[34] = 0
         /\ (pc = "decoded" /\ target = "record" /\ Len(buf) >= 34 /\ buf[34] # 0)
               => /\ dec.st = "err"
                  /\ dec.values = EmptyMap
                  /\ buf[1] = 2 => dec.err = "DiscriminatorMismatchError"

\* C17 witness: the ownerType byte of an encoded record was replaced by 1 and
\* the buffer decoded against record.
C17_Witness ==
    /\ rev = "latest" /\ schema = "record" /\ target = "record"
    /\ pc = "decoded" /\ tamper = "poke" /\ buf[1] = 2 /\ buf[34] = 1
    /\ dec.err = "DiscriminatorMismatchError"

\* Field i of a schema is a Bool that follows fixed-width fields only, so it
\* sits at the same offset in every buffer.
BoolPosition(fields, i) ==
    /\ fields[i].type.kind = "booleanTypeNode"
    /\ \A j \in 1..(i - 1) :
          fields[j].type.kind \in {"numberTypeNode", "booleanTypeNode", "publicKeyTypeNode"}

\* C20 -- Bool bytes: encode writes 00 or 01 at every Bool position, 01
\* exactly when the value is true, and every buffer that carries another
\* byte at a Bool position of the schema it is decoded against fails to
\* decode; in a class account the positions are offsets 33 (isPermissioned)
\* and 34 (isFrozen).
C20_BoolBytes ==
    /\ pc = "encoded"
         => /\ \A i \in DOMAIN Schema.fields :
                  BoolPosition(Schema.fields, i) =>
                     buf[WidthSum(Schema.fields, i - 1, EmptyMap) + 1]
                        = BoolByte(vals[Schema.fields[i].name])
            /\ (fam = "account" /\ schema = "class")
                  => buf[34] \in {0, 1} /\ buf[35] \in {0, 1}
    /\ pc = "decoded"
         => /\ \A i \in DOMAIN Target.fields :
                  (/\ BoolPosition(Target.fields, i)
                   /\ WidthSum(Target.fields, i - 1, EmptyMap) + 1 <= Len(buf)
                   /\ buf[WidthSum(Target.fields, i - 1, EmptyMap) + 1] \notin {0, 1})
                    => dec.st = "err" /\ dec.values = EmptyMap
            /\ (fam = "account" /\ target = "class" /\ Len(buf) >= 35
                  /\ (buf[34] \notin {0, 1} \/ buf[35] \notin {0, 1}))
                  => dec.st = "err"

\* C20 witness: the isFrozen byte of an encoded class account was replaced by
\* FF and the buffer decoded against class.
C20_Witness ==
    /\ rev = "latest" /\ fam = "account" /\ schema = "class" /\ target = "class"
    /\ pc = "decoded" /\ tamper = "poke" /\ buf[1] = 1 /\ buf[34] = 1
    /\ buf[35] = 255 /\ dec.st = "err" /\ dec.err = "TypeMismatchError"

\* The schema the receiver of a later revision decodes with.
Later == SchemaNamed(rootOf(rrev), fam, schema)

\* The later schema keeps the discriminator and the fields of the sender's.
SameSchema ==
    /\ DiscriminatorOf(Later) = DiscriminatorOf(Schema)
    /\ Later.fields = Schema.fields

\* The later receiver reads the sender's values.
SameValues == dec.st = "ok" /\ dec.values = Materialize(Schema, vals)

\* C15 as stated -- Additive revisions: every account and instruction of the
\* baseline (class, record, instructions 0 to 7) keeps in every later
\* revision its discriminator and its fields in order, and a buffer valid
\* under the baseline decodes to the same values under a later revision.
C15_BaselineAdditive ==
    (pc = "migrated" /\ rev = "first") => SameSchema /\ SameValues

\* C15 -- Revisions: class and the instructions 0 to 7 keep in every later
\* revision their discriminator and their fields in order, and their buffers
\* decode to the same values there; record keeps discriminator 2 in every
\* revision and its fields in the delegate revision, but the latest revision
\* inserts ownerType after class and drops hasAuthorityExtension, so a record
\* buffer of an earlier revision either fails to decode under the latest
\* revision or decodes to other values.
C15_Revisions ==
    pc = "migrated"
      => /\ DiscriminatorOf(Later) = DiscriminatorOf(Schema)
         /\ (schema # "record" \/ rrev # "latest") => SameSchema /\ SameValues
         /\ (schema = "record" /\ rrev = "latest")
               => /\ Later.fields # Schema.fields
                  /\ ~SameValues

\* C15 witness: a record account encoded under the first revision was decoded
\* under the latest revision, which read the first byte of owner as
\* ownerType.
C15_Witness ==
    /\ pc = "migrated" /\ rev = "first" /\ rrev = "latest" /\ schema = "record"
    /\ buf[1] = 2 /\ buf[34] # 0 /\ dec.err = "DiscriminatorMismatchError"

\* C13 -- Optional field: an absent Option<PublicKey> encodes to exactly the
\* one byte 00 and decodes back to absent; a present one encodes to 01
\* followed by the 32 key bytes and decodes back to present(key); decoding a
\* presence byte other than 0 or 1 fails with InvalidOptionTagError.
C13_OptionalField ==
    /\ pc = "encoded"
         => /\ ~vals.authority.present => buf = <<0>>
            /\ vals.authority.present
                  => Len(buf) = 33 /\ buf = <<1>> \o vals.authority.value
    /\ (pc = "decoded" /\ tamper = "none")
         => dec.st = "ok" /\ dec.values.authority = vals.authority
    /\ (pc = "decoded" /\ buf # <<>> /\ buf[1] \notin {0, 1})
         => /\ dec.st = "err"
            /\ dec.err = "InvalidOptionTagError"
            /\ dec.values = EmptyMap

\* C13 witness: the presence byte of an encoded present key was replaced by
\* 02 and the buffer decoded.
C13_Witness ==
    /\ schema = "optionalAuthority" /\ pc = "decoded" /\ tamper = "poke"
    /\ vals.authority.present /\ Len(buf) = 33 /\ buf[1] = 2
    /\ dec.err = "InvalidOptionTagError"

\* What a finished field-by-field decode must have produced.
ReadResultOK ==
    /\ dec = decode(Target, buf)
    /\ dec.cursor = cursor
    /\ dec.st = "ok" => dec.values = acc /\ idx = Len(Target.fields) + 1
    /\ dec.st = "err" => dec.values = EmptyMap
    /\ buf = <<>> => dec.st = "err" /\ dec.err = "TruncatedInputError"
    /\ (buf # <<>> /\ buf[1] # DiscriminatorOf(Target))
          => dec.st = "err" /\ dec.err = "DiscriminatorMismatchError"

\* One step of a decode: the cursor does not move back, the fields are taken
\* one by one in schema order, and the values read so far are those of the
\* fields before the one read next.
ReadStepOK ==
    /\ cursor' >= cursor
    /\ idx' \in {idx, idx + 1} \/ (pc \in {"encoded", "wire"} /\ idx' = 1)
    /\ pc' = "reading" =>
          DOMAIN acc' = {Target'.fields[j].name : j \in 1..(idx' - 1)}

\* C19 -- Decode order: decode reads the fields in schema order with a cursor
\* that never moves backwards and stops at the first field that fails with
\* that field's error, so a buffer with a wrong discriminator that is also
\* too short fails with DiscriminatorMismatchError and an empty buffer fails
\* with TruncatedInputError; a failing decode returns no value mapping, even
\* when fields had been read before the failure.
C19_DecodeOrder ==
    /\ [](pc = "decoded" => ReadResultOK)
    /\ [][ReadStepOK]_vars

\* C19 witness: a class account cut to 40 bytes was decoded against record:
\* the decode stopped on the first field, at cursor 0, with
\* DiscriminatorMismatchError.
C19_Witness ==
    /\ pc = "decoded" /\ schema = "class" /\ target = "record"
    /\ tamper = "truncate" /\ Len(buf) = 40 /\ buf[1] = 1
    /\ idx = 1 /\ cursor = 0 /\ dec.err = "DiscriminatorMismatchError"

\* Carry into digit i when the digit strings b and m are added.
RECURSIVE CarryIn(_, _, _)
CarryIn(b, m, i) ==
    IF i = 1 THEN 0 ELSE (b[i - 1] + m[i - 1] + CarryIn(b, m, i - 1)) \div 256

\* The eight bytes b are the little-endian two's complement form of x: the
\* magnitude itself for x >= 0, the digit string that adds up with the
\* magnitude to 2^64 for x < 0, and the top bit is the sign.
TwosComplement(b, x) ==
    /\ Len(b) = 8
    /\ IF x.neg
          THEN /\ b[8] >= 128
               /\ \A i \in 1..8 : (b[i] + x.mag[i] + CarryIn(b, x.mag, i)) % 256 = 0
          ELSE /\ b[8] < 128
               /\ \A i \in 1..8 : b[i] = x.mag[i]

I64Max == I64(FALSE, [i \in 1..8 |-> IF i = 8 THEN 127 ELSE 255])

I64Min == I64(TRUE, [i \in 1..8 |-> IF i = 8 THEN 128 ELSE 0])

\* The indexes of the I64 fields of a schema.
I64Fields(s) ==
    {i \in DOMAIN s.fields : /\ s.fields[i].type.kind = "numberTypeNode"
                              /\ s.fields[i].type.format = "i64"}

\* The bytes of field i, which follows fixed-width fields only.
FieldBytes(s, i, w) ==
    SubSeq(buf, WidthSum(s.fields, i - 1, EmptyMap) + 1,
                WidthSum(s.fields, i - 1, EmptyMap) + w)

\* C21 -- I64 fields: an I64 field (expiry, expiration) is encoded as exactly
\* 8 bytes, least significant first, in two's complement; -1 is eight FF
\* bytes, the maximum is FF FF FF FF FF FF FF 7F and the minimum 00 00 00 00
\* 00 00 00 80; decoding the encoding returns the value.  In a record account
\* of the latest revision expiry is at offsets 67 to 74.
C21_I64 ==
    /\ pc = "encoded"
         => /\ \A i \in I64Fields(Schema) :
                  LET x == given[Schema.fields[i].name]
                      b == FieldBytes(Schema, i, 8)
                  IN  /\ TwosComplement(b, x)
                      /\ x = MinusOne => b = [j \in 1..8 |-> 255]
                      /\ x = I64Max => b = <<255, 255, 255, 255, 255, 255, 255, 127>>
                      /\ x = I64Min => b = <<0, 0, 0, 0, 0, 0, 0, 128>>
            /\ Len(buf) = WidthSum(Schema.fields, Len(Schema.fields),
                                   Materialize(Schema, given))
            /\ (rev = "latest" /\ fam = "account" /\ schema = "record")
                  => TwosComplement(SubSeq(buf, 68, 75), given.expiry)
    /\ pc = "decoded"
         => /\ dec.st = "ok"
            /\ \A i \in I64Fields(Schema) :
                  dec.values[Schema.fields[i].name] = given[Schema.fields[i].name]

\* C21 witness: a record account whose expiry is the minimum value was
\* encoded and decoded.
C21_Witness ==
    /\ mode = "numbers" /\ rev = "latest" /\ schema = "record" /\ pc = "decoded"
    /\ given.expiry = I64Min
    /\ SubSeq(buf, 68, 75) = <<0, 0, 0, 0, 0, 0, 0, 128>>
    /\ dec.values.expiry = I64Min

\* The mapping handed to encode lacks the name of a field without a fixed
\* value.
Lacks ==
    \E i \in DOMAIN Schema.fields :
        ~IsFixed(Schema.fields[i]) /\ Schema.fields[i].name \notin DOMAIN given

\* Every value the mapping does supply can be encoded: a key has 32 bytes, a
\* size-prefixed string at most 255.
WellFormed ==
    \A i \in DOMAIN Schema.fields :
        LET f == Schema.fields[i]
        IN  (~IsFixed(f) /\ f.name \in DOMAIN given) =>
               /\ f.type.kind = "publicKeyTypeNode" => Len(given[f.name]) = 32
               /\ f.type.kind = "sizePrefixTypeNode" => Utf8Len(given[f.name]) <= 255

KeyFields(s) == {i \in DOMAIN s.fields : s.fields[i].type.kind = "publicKeyTypeNode"}

\* C23 -- PublicKey fields: a key is encoded as its 32 bytes with nothing
\* before them (transferRecord data is the byte 05 and the 32 bytes of
\* newOwner), and encode fails and produces no bytes for every supplied key
\* that is shorter or longer than 32 bytes.
C23_PublicKey ==
    /\ pc = "encoded"
         => /\ \A i \in KeyFields(Schema) :
                  /\ Len(given[Schema.fields[i].name]) = 32
                  /\ FieldBytes(Schema, i, 32) = given[Schema.fields[i].name]
            /\ (rev = "latest" /\ schema = "transferRecord")
                  => buf = <<5>> \o given.newOwner
    /\ (pc \in {"encoded", "failed"} /\ ~Lacks
          /\ \E i \in KeyFields(Schema) : Len(given[Schema.fields[i].name]) # 32)
         => pc = "failed" /\ enc.st = "err" /\ enc.bytes = <<>> /\ buf = <<>>

\* C23 witness: transferRecord was encoded with a newOwner of 33 bytes.
C23_Witness ==
    /\ mode = "keys" /\ rev = "latest" /\ schema = "transferRecord"
    /\ Len(given.newOwner) = 33 /\ pc = "failed"
    /\ enc.err = "TypeMismatchError" /\ buf = <<>>

\* A string without a size prefix occurs in a schema only as its last field.
UnprefixedLast(s) ==
    \A i \in DOMAIN s.fields :
        s.fields[i].type.kind = "stringTypeNode" => i = Len(s.fields)

\* C24 -- Final string: in every account and instruction schema of the
\* revision in use a string without a size prefix occurs only as the last
\* field (so at most once); a successful decode against a schema that ends
\* in one has taken every byte after the fields before it, and when there
\* are none the string is empty.
C24_FinalString ==
    /\ \A f \in Families : \A i \in DOMAIN SchemasOf(Program, f) :
          UnprefixedLast(SchemasOf(Program, f)[i])
    /\ (pc = "decoded" /\ dec.st = "ok"
          /\ Target.fields[Len(Target.fields)].type.kind = "stringTypeNode")
         => LET n == Len(Target.fields)
                last == dec.values[Target.fields[n].name]
            IN  /\ Len(buf) = WidthSum(Target.fields, n, dec.values)
                /\ dec.cursor = Len(buf)
                /\ Len(buf) = WidthSum(Target.fields, n - 1, dec.values)
                      => last = <<>>

\* C24 witness: a class account with metadata "test" lost its last four bytes
\* and decoded with an empty metadata.
C24_Witness ==
    /\ pc = "decoded" /\ tamper = "truncate" /\ schema = "class" /\ target = "class"
    /\ vals.metadata = StrTest /\ dec.st = "ok" /\ dec.values.metadata = <<>>
    /\ dec.values.name = vals.name

\* The schema the later receiver found under the first byte of the buffer.
Routed == SchemaNamed(rootOf(rrev), fam, disp.name)

\* C25 as stated -- Discriminators across revisions: an instruction
\* discriminator denotes the same instruction with the same argument layout
\* in every revision that defines it, so instruction data of one revision is
\* never decoded as another instruction by a later one.
C25_SameInstruction ==
    (pc = "routed" /\ fam = "instruction" /\ disp.st = "ok")
      => /\ disp.name = schema
         /\ Routed.fields = Schema.fields

\* C25 -- Discriminators across revisions: the discriminators 0 to 7 denote
\* the same instruction with the same argument layout in every revision that
\* defines them, and their data decodes to the same values in a later
\* revision; 8, 9 and 10 denote createRecordAuthorityDelegate,
\* updateRecordAuthorityDelegate and deleteRecordAuthorityDelegate in the
\* delegate revision but mintTokenizedRecord, updateTokenizedRecord and
\* freezeTokenizedRecord in the latest one, which takes delegate data of
\* these three for its own instructions and rejects it or decodes it to
\* other values.
C25_Discriminators ==
    (pc = "routed" /\ fam = "instruction")
      => /\ disp.st = "ok"
         /\ DiscriminatorOf(Routed) = DiscriminatorOf(Schema)
         /\ DiscriminatorOf(Schema) \in 0..7
               => /\ disp.name = schema
                  /\ Routed.fields = Schema.fields
                  /\ SameValues
         /\ DiscriminatorOf(Schema) \notin 0..7
               => /\ rev = "delegate" /\ rrev = "latest"
                  /\ disp.name # schema
                  /\ Routed.fields # Schema.fields
                  /\ ~SameValues
                  /\ schema = "createRecordAuthorityDelegate"
                        => disp.name = "mintTokenizedRecord"
                  /\ schema = "updateRecordAuthorityDelegate"
                        => disp.name = "updateTokenizedRecord"
                  /\ schema = "deleteRecordAuthorityDelegate"
                        => disp.name = "freezeTokenizedRecord"

\* C25 witness: updateRecordAuthorityDelegate data of the delegate revision,
\* five keys of 32 bytes, was decoded by the latest revision as
\* updateTokenizedRecord with a newData of 160 characters.
C25_Witness ==
    /\ pc = "routed" /\ rev = "delegate" /\ rrev = "latest"
    /\ schema = "updateRecordAuthorityDelegate" /\ buf[1] = 9
    /\ disp.name = "updateTokenizedRecord" /\ dec.st = "ok"
    /\ Len(dec.values.newData) = 160

\* C26 -- After the script: when the generation script has run to
\* completion, every listed config file that existed before the run has its
\* original content and no temp copy of it is left in the directory.
C26_ConfigRestored ==
    spc = "done"
      => \A f \in Listed :
            existsSync(before, filePath(f))
               => /\ files[filePath(f)] = before[filePath(f)]
                  /\ ~existsSync(files, tempPath(f))

\* The files preserveConfigFiles copied.
Copied == {preserved[i] : i \in DOMAIN preserved}

\* One step of the copies' life, as the claim has it.
PreserveFrame ==
    /\ (spc = "start" /\ spc' = "preserved")
         => /\ Copied' = {f \in Listed : existsSync(files, filePath(f))}
            /\ \A f \in Copied' : files'[tempPath(f)] = files[filePath(f)]
            /\ \A p \in Paths :
                  (~p.temp \/ p.file \notin Copied') => files'[p] = files[p]
    /\ (spc = "preserved" /\ spc' = "restored")
         => /\ \A f \in Copied :
                  /\ files'[filePath(f)] = files[tempPath(f)]
                  /\ files'[tempPath(f)] = "none"
            /\ \A p \in Paths : p.file \notin Copied => files'[p] = files[p]
    /\ (spc = "restored" /\ spc' = "restoredTwice") => files' = files

\* C27 -- Frame of the copies: preserveConfigFiles makes a temp copy exactly
\* of the listed files that exist and touches no other path; restore writes
\* back exactly the copied files from their temp copies, removes those temp
\* copies and touches no other path; a second call of restore changes
\* nothing.
C27_PreserveFrame == [][PreserveFrame]_vars

\* C27 witness: package.json and other files were copied, one copied file
\* was rewritten or removed by someone else, restore brought every file back
\* to what it was and was called again; the stale temp copy of Cargo.toml,
\* which did not exist, is still there.
C27_Witness ==
    /\ spc = "restoredTwice" /\ disturbed = 1
    /\ before[filePath("package.json")] = "orig"
    /\ \A f \in Listed \cup {Unlisted} : files[filePath(f)] = before[filePath(f)]
    /\ files[tempPath("package.json")] = "none"
    /\ before[filePath("Cargo.toml")] = "none"
    /\ files[tempPath("Cargo.toml")] = "stale"

\* C28 -- Account and instruction discriminators are separate namespaces
\* that overlap: 1 is both the class account and updateClassMetadata, 2 is
\* both the record account and freezeClass (where the revision declares
\* them).  Dispatch for a requested family names at most one schema, a
\* schema declared in that family under the first byte and never one of
\* the other family; on 1 and 2 it names the account for the account
\* family and the instruction for the instruction family.
C28_SeparateNamespaces ==
    LET own   == IF disp.family = "account" THEN Program.accounts ELSE Program.instructions
        other == IF disp.family = "account" THEN Program.instructions ELSE Program.accounts
    IN  /\ \E i \in DOMAIN Program.accounts :
              /\ Program.accounts[i].name = "class"
              /\ DiscriminatorOf(Program.accounts[i]) = 1
        /\ \E i \in DOMAIN Program.instructions :
              /\ Program.instructions[i].name = "updateClassMetadata"
              /\ DiscriminatorOf(Program.instructions[i]) = 1
        /\ rev # "earliest"
              => /\ \E i \in DOMAIN Program.accounts :
                       /\ Program.accounts[i].name = "record"
                       /\ DiscriminatorOf(Program.accounts[i]) = 2
                 /\ \E i \in DOMAIN Program.instructions :
                       /\ Program.instructions[i].name = "freezeClass"
                       /\ DiscriminatorOf(Program.instructions[i]) = 2
        /\ (pc = "dispatched" /\ disp.st = "ok")
              => /\ \E i \in DOMAIN own :
                       own[i].name = disp.name /\ DiscriminatorOf(own[i]) = buf[1]
                 /\ \A j \in DOMAIN other : other[j].name # disp.name
        /\ (pc = "dispatched" /\ disp.st = "err") => disp.name = "none"
        /\ (pc = "dispatched" /\ buf # <<>> /\ buf[1] = 1)
              => disp.name = (IF disp.family = "account"
                                 THEN "class" ELSE "updateClassMetadata")
        /\ (pc = "dispatched" /\ buf # <<>> /\ buf[1] = 2 /\ rev # "earliest")
              => disp.name = (IF disp.family = "account"
                                 THEN "record" ELSE "freezeClass")

\* C28 witness: the untouched encoding of a class account of the latest
\* revision was dispatched as an instruction and named updateClassMetadata.
C28_Witness ==
    /\ pc = "dispatched" /\ rev = "latest" /\ fam = "account" /\ schema = "class"
    /\ tamper = "none" /\ enc.st = "ok" /\ buf[1] = 1
    /\ disp.family = "instruction" /\ disp.st = "ok"
    /\ disp.name = "updateClassMetadata"

\* The schema starts with a discriminator field: named discriminator, of
\* type u8, with an omitted default equal to the constant the schema is
\* registered under.
StartsWithDiscriminator(s) ==
    /\ Len(s.fields) >= 1
    /\ s.fields[1].name = "discriminator"
    /\ s.fields[1].type = numberTypeNode("u8")
    /\ s.fields[1].hasDefault
    /\ s.fields[1].defaultValueStrategy = "omitted"
    /\ Len(s.discriminators) = 1
    /\ s.discriminators[1].kind = "constantDiscriminatorNode"
    /\ s.discriminators[1].constant.type = numberTypeNode("u8")
    /\ s.fields[1].defaultValue = s.discriminators[1].constant.value

\* C29 -- For every account and every instruction in every schema revision
\* the first field is named discriminator, has type u8 and an omitted
\* default, and its default value equals the constant of the schema's
\* constantDiscriminatorNode; an encoding therefore starts with that
\* constant, and a decoded mapping carries it under discriminator.
C29_DiscriminatorField ==
    /\ \A r \in DOMAIN Revisions : \A f \in Families :
          \A i \in DOMAIN SchemasOf(rootOf(Revisions[r]), f) :
             StartsWithDiscriminator(SchemasOf(rootOf(Revisions[r]), f)[i])
    /\ (pc = "encoded" /\ enc.st = "ok")
          => buf[1] = Schema.discriminators[1].constant.value
    /\ (pc = "decoded" /\ dec.st = "ok")
          => dec.values["discriminator"] = Target.discriminators[1].constant.value

\* C29 witness: a recordDelegate account of the delegate revision was
\* encoded and decoded; the buffer starts with 3 and the mapping read back
\* has discriminator 3.
C29_Witness ==
    /\ pc = "decoded" /\ rev = "delegate" /\ fam = "account"
    /\ schema = "recordDelegate" /\ target = "recordDelegate"
    /\ tamper = "none" /\ dec.st = "ok" /\ buf[1] = 3
    /\ dec.values["discriminator"] = 3

\* C30 -- The program address of the generated binding equals the address
\* declared in the schema, srsUi2TVUUCyGcZdopxJauk8ZBzgAaHHZCVUhm5ifPa, in
\* every revision; createSolanaRecordServiceProgram returns a descriptor
\* with that address that reports isOnCluster true for every cluster; and
\* getSolanaRecordServiceProgramId returns that address whenever no program
\* named solanaRecordService is registered in the context, whatever the
\* cluster filter.
C30_ProgramAddress ==
    /\ SOLANA_RECORD_SERVICE_PROGRAM_ID = "srsUi2TVUUCyGcZdopxJauk8ZBzgAaHHZCVUhm5ifPa"
    /\ \A r \in DOMAIN Revisions :
          rootOf(Revisions[r]).publicKey = SOLANA_RECORD_SERVICE_PROGRAM_ID
    /\ createSolanaRecordServiceProgram.publicKey = SOLANA_RECORD_SERVICE_PROGRAM_ID
    /\ \A c \in Clusters : createSolanaRecordServiceProgram.isOnCluster[c]
    /\ (bpc = "asked"
        /\ \A i \in DOMAIN programs : programs[i].name # "solanaRecordService")
          => /\ answer.st = "ok"
             /\ answer.publicKey = "srsUi2TVUUCyGcZdopxJauk8ZBzgAaHHZCVUhm5ifPa"

\* C30 witness: a context on testnet that holds the system program only was
\* asked for the address with the filter left out and answered with the
\* constant.
C30_Witness ==
    /\ bpc = "asked" /\ cluster = "testnet" /\ asked = "undefined"
    /\ programs = <<SystemProgram>>
    /\ answer.st = "ok"
    /\ answer.publicKey = SOLANA_RECORD_SERVICE_PROGRAM_ID
====
